---------------------------- MODULE Spec2Model ----------------------------
(***************************************************************************)
(* A model of the host-independent algorithms of io_pdx_mesh's Maya        *)
(* importer/exporter (src/pdx_maya/maya_import_export.py):                 *)
(*   - the animation clip table kept as a delimited string attribute on    *)
(*     the skeleton's root bone (specification SpecClips),                 *)
(*   - the skeleton hierarchy resolution (specification SpecSkel),         *)
(*   - the packing and unpacking of skin weights (specification SpecSkin), *)
(*   - the packing and unpacking of animation samples (SpecAnim).          *)
(* Every specification drives its own group of variables and leaves the    *)
(* others at their initial value.                                          *)
(***************************************************************************)
EXTENDS Integers, Sequences, FiniteSets, TLC

VARIABLES
    anim_attr,      \* the PDX_ANIMATION attribute of the skeleton's root bone
    clip_call,      \* the last clip table call: arguments, outcome, list written
    parent,         \* host hierarchy: parent[b] is bone b's parent, 0 for none
    ignore,         \* host hierarchy: ignore[b] is bone b's pdxIgnoreJoint flag
    skel_call,      \* the last skeleton call: arguments and outcome
    skin_in,        \* the skin cluster and vertex ids given to the exporter
    skin_out,       \* what get_mesh_skin_info returned
    skin_imp,       \* the weights create_skin handed to the skin cluster
    anim_in,        \* the scene's bones and their transform samples
    anim_file,      \* what export_animfile wrote
    anim_imp,       \* the keyframes import_animfile unpacked
    swap_call,      \* the datum given to swap_coord_space and what it became
    quat_sign,      \* the host's choice of sign when it reads a quaternion
                    \* off a rotation matrix
    mesh_in,        \* the host mesh given to get_mesh_info
    mesh_out,       \* what get_mesh_info (and then get_mesh_skin_info) returned
    mesh_imp        \* what create_mesh hands the host for the exported mesh

vars == <<anim_attr, clip_call, parent, ignore, skel_call,
          skin_in, skin_out, skin_imp, anim_in, anim_file, anim_imp,
          swap_call, quat_sign, mesh_in, mesh_out, mesh_imp>>

clipVars == <<anim_attr, clip_call>>
skelVars == <<parent, ignore, skel_call>>
skinVars == <<skin_in, skin_out, skin_imp>>
animVars == <<anim_in, anim_file, anim_imp>>
swapVars == <<swap_call, quat_sign>>
meshVars == <<mesh_in, mesh_out, mesh_imp>>

(***************************************************************************)
(* Generic helpers.                                                        *)
(***************************************************************************)
Range(s) == {s[i] : i \in 1..Len(s)}

\* list.index(x): the position (1-based here) of the first element equal to x,
\* 0 when there is none (Python raises ValueError)
RECURSIVE IndexFrom(_, _, _)
IndexFrom(s, x, i) ==
    IF i > Len(s) THEN 0
    ELSE IF s[i] = x THEN i
    ELSE IndexFrom(s, x, i + 1)

IndexOf(s, x) == IndexFrom(s, x, 1)

\* the sequences over S of length at most n
SeqsUpTo(S, n) == UNION {[1..k -> S] : k \in 0..n}

\* the sequences over S of length at most n in which no element repeats
DistinctSeqs(S, n) == {s \in SeqsUpTo(S, n) : Cardinality(Range(s)) = Len(s)}

(***************************************************************************)
(* Strings are sequences of one-character strings, so that str(), int(),   *)
(* split() and join() are modelled by what they do to the characters.      *)
(***************************************************************************)
Digits == <<"0", "1", "2", "3", "4", "5", "6", "7", "8", "9">>

RECURSIVE NatToStr(_)
NatToStr(n) ==
    IF n < 10 THEN <<Digits[n + 1]>>
    ELSE NatToStr(n \div 10) \o <<Digits[(n % 10) + 1]>>

\* str(i) of a Python int
IntToStr(i) == IF i < 0 THEN <<"-">> \o NatToStr(0 - i) ELSE NatToStr(i)

IsDigit(c) == IndexOf(Digits, c) # 0

RECURSIVE DigitsToNat(_, _)
DigitsToNat(s, acc) ==
    IF s = <<>> THEN acc
    ELSE DigitsToNat(Tail(s), acc * 10 + (IndexOf(Digits, Head(s)) - 1))

\* int(s) of a Python string: an optional sign and at least one digit, anything
\* else raises ValueError
IntOk(s) ==
    LET body == IF s # <<>> /\ Head(s) = "-" THEN Tail(s) ELSE s
    IN  body # <<>> /\ \A i \in 1..Len(body) : IsDigit(body[i])

StrToInt(s) ==
    IF Head(s) = "-" THEN 0 - DigitsToNat(Tail(s), 0) ELSE DigitsToNat(s, 0)

\* s.split(sep): the pieces of s between the occurrences of sep; the split of
\* the empty string is one empty piece
RECURSIVE SplitFrom(_, _, _, _)
SplitFrom(s, sep, i, cur) ==
    IF i > Len(s) THEN <<cur>>
    ELSE IF s[i] = sep THEN <<cur>> \o SplitFrom(s, sep, i + 1, <<>>)
    ELSE SplitFrom(s, sep, i + 1, Append(cur, s[i]))

Split(s, sep) == SplitFrom(s, sep, 1, <<>>)

\* sep.join(parts)
RECURSIVE Join(_, _)
Join(parts, sep) ==
    IF parts = <<>> THEN <<>>
    ELSE IF Len(parts) = 1 THEN parts[1]
    ELSE parts[1] \o <<sep>> \o Join(Tail(parts), sep)

(***************************************************************************)
(* The animation clip table.                                               *)
(***************************************************************************)
\* AnimClip = namedtuple('AnimClip', ['name', 'start', 'end'])
AnimClip(name, start, end) == [name |-> name, start |-> start, end |-> end]

\* the root bone's attribute: absent (hasattr is false), added but never set
\* (get() returns None), or holding a string
AttrAbsent == [kind |-> "absent", s |-> <<>>]
AttrUnset == [kind |-> "unset", s |-> <<>>]
AttrStr(s) == [kind |-> "str", s |-> s]

\* list.sort(key=lambda clip: clip.start): a stable sort by start frame
RECURSIVE InsertByStart(_, _)
InsertByStart(sorted, clip) ==
    IF sorted = <<>> THEN <<clip>>
    ELSE IF sorted[Len(sorted)].start <= clip.start THEN Append(sorted, clip)
    ELSE Append(InsertByStart(SubSeq(sorted, 1, Len(sorted) - 1), clip),
                sorted[Len(sorted)])

RECURSIVE SortFrom(_, _, _)
SortFrom(clips, i, acc) ==
    IF i > Len(clips) THEN acc
    ELSE SortFrom(clips, i + 1, InsertByStart(acc, clips[i]))

SortByStart(clips) == SortFrom(clips, 1, <<>>)

\* one '~'-separated clip string: the AnimClip, or the exception Python raises
ParseClip(clip_string) ==
    LET f == Split(clip_string, "~")
    IN  IF Len(f) < 3 THEN [ok |-> FALSE, err |-> "IndexError"]
        ELSE IF ~IntOk(f[2]) \/ ~IntOk(f[3])
             THEN [ok |-> FALSE, err |-> "ValueError"]
        ELSE [ok |-> TRUE, clip |-> AnimClip(f[1], StrToInt(f[2]), StrToInt(f[3]))]

RECURSIVE ParseClips(_, _, _)
ParseClips(segs, i, acc) ==
    IF i > Len(segs) THEN [ok |-> TRUE, err |-> "", clips |-> acc]
    ELSE LET c == ParseClip(segs[i])
         IN  IF ~c.ok THEN [ok |-> FALSE, err |-> c.err, clips |-> <<>>]
             ELSE ParseClips(segs, i + 1, Append(acc, c.clip))

\* get_animation_clips, given the root bone's attribute
get_animation_clips(attr) ==
    IF attr.kind # "str" THEN [ok |-> TRUE, err |-> "", clips |-> <<>>]
    ELSE LET r == ParseClips(Split(attr.s, "@"), 1, <<>>)
         IN  IF r.ok THEN [r EXCEPT !.clips = SortByStart(r.clips)] ELSE r

\* (mutant) set_animation_clips without its sort
ClipsToWrite_Unsorted(clips_list) == clips_list

\* the list set_animation_clips serialises: clips_list after its sort
ClipsToWrite(clips_list) == SortByStart(clips_list)

ClipToStr(clip) ==
    Join(<<clip.name, IntToStr(clip.start), IntToStr(clip.end)>>, "~")

\* set_animation_clips: the attribute string written for clips_list
set_animation_clips(clips_list) ==
    LET sorted == ClipsToWrite(clips_list)
    IN  AttrStr(Join([i \in 1..Len(sorted) |-> ClipToStr(sorted[i])], "@"))

ClipNamesOf(clips) == [i \in 1..Len(clips) |-> clips[i].name]

\* the list edit_animation_clip hands to set_animation_clips
EditedClips(anim_clips, new_clip) ==
    LET i == IndexOf(ClipNamesOf(anim_clips), new_clip.name)
    IN  IF i # 0 THEN [anim_clips EXCEPT ![i] = new_clip]
        ELSE Append(anim_clips, new_clip)

\* list.pop(i)
Pop(s, i) == SubSeq(s, 1, i - 1) \o SubSeq(s, i + 1, Len(s))

\* the inputs of the clip table calls
Walk == <<"w", "a", "l", "k">>
Run == <<"r", "u", "n">>
RunTilde == <<"r", "u", "n", "~", "5">>
ClipNames == {Walk, Run, RunTilde}
ClipRanges == {<<0, 10>>, <<11, 20>>, <<0, 12>>, <<-3, 4>>}
MaxClips == 2

\* the record of a call: its arguments, the exception it raised ("" for none),
\* the list get_animation_clips returned to the caller, and the clip list that
\* was last serialised into the attribute (kept when the call writes nothing)
ClipCall(op, name, start, end, err, result, written) ==
    [op |-> op, name |-> name, start |-> start, end |-> end,
     err |-> err, result |-> result, written |-> written]

NoClipCall == ClipCall("none", <<>>, 0, 0, "", <<>>, <<>>)

\* a skeleton whose root bone carries no clip attribute yet
InitClips ==
    /\ anim_attr = AttrAbsent
    /\ clip_call = NoClipCall
    /\ parent = <<>> /\ ignore = <<>> /\ skel_call = <<>>
    /\ skin_in = <<>> /\ skin_out = <<>> /\ skin_imp = <<>>
    /\ anim_in = <<>> /\ anim_file = <<>> /\ anim_imp = <<>>
    /\ swap_call = <<>> /\ quat_sign = <<>>
    /\ mesh_in = <<>> /\ mesh_out = <<>> /\ mesh_imp = <<>>

\* what a clip table call leaves behind: the attribute, the exception raised
\* ("" for none), and the clip list it serialised (wrote is FALSE for none)
ClipOutcome(attr, err, wrote, written) ==
    [attr |-> attr, err |-> err, wrote |-> wrote, written |-> written]

\* edit_animation_clip(bone_list, anim_name, start, end), for a bone_list that
\* resolves to the root bone carrying attr
edit_animation_clip(attr, anim_name, start, end) ==
    LET added == IF attr.kind = "absent" THEN AttrUnset ELSE attr
        got == get_animation_clips(added)
        list == EditedClips(got.clips, AnimClip(anim_name, start, end))
    IN  IF ~got.ok THEN ClipOutcome(added, got.err, FALSE, <<>>)
        ELSE ClipOutcome(set_animation_clips(list), "", TRUE, ClipsToWrite(list))

\* remove_animation_clip(bone_list, anim_name)
remove_animation_clip(attr, anim_name) ==
    LET got == get_animation_clips(attr)
        i == IndexOf(ClipNamesOf(got.clips), anim_name)
    IN  IF ~got.ok THEN ClipOutcome(attr, got.err, FALSE, <<>>)
        ELSE IF i = 0 THEN ClipOutcome(attr, "ValueError", FALSE, <<>>)
        ELSE ClipOutcome(set_animation_clips(Pop(got.clips, i)), "", TRUE,
                         ClipsToWrite(Pop(got.clips, i)))

\* a call of edit_animation_clip; the table is kept to MaxClips clips
EditClip ==
    /\ \E n \in ClipNames, r \in ClipRanges :
          LET o == edit_animation_clip(anim_attr, n, r[1], r[2])
          IN  /\ Len(o.written) <= MaxClips
              /\ anim_attr' = o.attr
              /\ clip_call' = ClipCall("edit", n, r[1], r[2], o.err, <<>>,
                                  IF o.wrote THEN o.written ELSE clip_call.written)
    /\ UNCHANGED <<skelVars, skinVars, animVars, swapVars, meshVars>>

\* a call of remove_animation_clip
RemoveClip ==
    /\ \E n \in ClipNames :
          LET o == remove_animation_clip(anim_attr, n)
          IN  /\ anim_attr' = o.attr
              /\ clip_call' = ClipCall("remove", n, 0, 0, o.err, <<>>,
                                  IF o.wrote THEN o.written ELSE clip_call.written)
    /\ UNCHANGED <<skelVars, skinVars, animVars, swapVars, meshVars>>

\* a call of get_animation_clips by the user interface
GetClips ==
    /\ LET got == get_animation_clips(anim_attr)
       IN  clip_call' = ClipCall("get", <<>>, 0, 0, got.err, got.clips,
                                 clip_call.written)
    /\ UNCHANGED <<anim_attr, skelVars, skinVars, animVars, swapVars, meshVars>>

NextClips == EditClip \/ RemoveClip \/ GetClips

(***************************************************************************)
(* The host's joint hierarchy and the skeleton resolver.  Bones are        *)
(* numbered so that a parent has a smaller number than its children;       *)
(* listRelatives yields a bone's children in increasing number.            *)
(***************************************************************************)
MaxBones == 3

HostBones == DOMAIN parent

\* every hierarchy (a forest) over the bones 1..n
Hierarchies(n) == {p \in [1..n -> 0..n] : \A b \in 1..n : p[b] < b}

\* bone.root(): the top of the bone's ancestor chain
RECURSIVE root(_)
root(bone) == IF parent[bone] = 0 THEN bone ELSE root(parent[bone])

\* pmc.listRelatives(bone, children=True, type='joint'), in declaration order
RECURSIVE ChildrenFrom(_, _)
ChildrenFrom(bone, b) ==
    IF b \notin HostBones THEN <<>>
    ELSE IF parent[b] = bone THEN <<b>> \o ChildrenFrom(bone, b + 1)
    ELSE ChildrenFrom(bone, b + 1)

listRelatives(bone) == ChildrenFrom(bone, 1)

\* the children kept by get_recursive_children: those not flagged pdxIgnoreJoint
RECURSIVE KeptFrom(_, _)
KeptFrom(jnts, i) ==
    IF i > Len(jnts) THEN <<>>
    ELSE IF ignore[jnts[i]] THEN KeptFrom(jnts, i + 1)
    ELSE <<jnts[i]>> \o KeptFrom(jnts, i + 1)

children(bone) == KeptFrom(listRelatives(bone), 1)

\* get_skeleton_hierarchy.get_recursive_children
RECURSIVE get_recursive_children(_, _)
RECURSIVE VisitChildren(_, _, _)
\* (mutant) the bone is appended after its children
get_recursive_children_ChildrenFirst(bone, hierarchy) ==
    Append(VisitChildren(children(bone), 1, hierarchy), bone)

get_recursive_children(bone, hierarchy) ==
    VisitChildren(children(bone), 1, Append(hierarchy, bone))

VisitChildren(kids, i, hierarchy) ==
    IF i > Len(kids) THEN hierarchy
    ELSE VisitChildren(kids, i + 1, get_recursive_children(kids[i], hierarchy))

\* the set root_bone that get_skeleton_hierarchy collects
root_bone(bone_list) == {root(bone_list[i]) : i \in 1..Len(bone_list)}

\* (mutant) only an empty root set is refused
get_skeleton_hierarchy_AnyRoot(bone_list) ==
    IF root_bone(bone_list) = {}
    THEN [ok |-> FALSE, bones |-> <<>>]
    ELSE [ok |-> TRUE,
          bones |-> get_recursive_children(
                        CHOOSE r \in root_bone(bone_list) :
                            \A q \in root_bone(bone_list) : r <= q, <<>>)]

\* (mutant) the traversal starts at the first bone listed, not at the root
get_skeleton_hierarchy_FromListed(bone_list) ==
    IF Cardinality(root_bone(bone_list)) # 1
    THEN [ok |-> FALSE, bones |-> <<>>]
    ELSE [ok |-> TRUE, bones |-> get_recursive_children(bone_list[1], <<>>)]

\* get_skeleton_hierarchy(bone_list): the bone list, or ok = FALSE for the
\* RuntimeError "Unable to resolve a single root bone for the skeleton"
get_skeleton_hierarchy(bone_list) ==
    IF Cardinality(root_bone(bone_list)) # 1
    THEN [ok |-> FALSE, bones |-> <<>>]
    ELSE [ok |-> TRUE,
          bones |-> get_recursive_children(
                        CHOOSE r \in root_bone(bone_list) : TRUE, <<>>)]

\* one bone dictionary of get_mesh_skeleton_info: 'ix' and, when the bone has a
\* parent, 'pa' (an absent key is the empty list here); indices count from 0
BoneInfo(all_bones, i) ==
    [ix |-> <<i - 1>>,
     pa |-> IF parent[all_bones[i]] # 0
            THEN <<IndexOf(all_bones, parent[all_bones[i]]) - 1>>
            ELSE <<>>]

\* get_mesh_skeleton_info, given the skin cluster's influence objects
get_mesh_skeleton_info(influences) ==
    LET h == get_skeleton_hierarchy(influences)
    IN  IF ~h.ok THEN [ok |-> FALSE, bones |-> <<>>, info |-> <<>>]
        ELSE IF \E i \in 1..Len(h.bones) :
                    /\ parent[h.bones[i]] # 0
                    /\ IndexOf(h.bones, parent[h.bones[i]]) = 0
        THEN [ok |-> FALSE, bones |-> h.bones, info |-> <<>>]
        ELSE [ok |-> TRUE, bones |-> h.bones,
              info |-> [i \in 1..Len(h.bones) |-> BoneInfo(h.bones, i)]]

\* the bone lists handed to the resolver: any bones of the scene, in any order
BoneLists == DistinctSeqs(HostBones, Cardinality(HostBones))

NoSkelCall ==
    [op |-> "none", bone_list |-> <<>>, ok |-> FALSE, bones |-> <<>>, info |-> <<>>]

\* any hierarchy over MaxBones bones, with any ignore flags
InitSkel ==
    /\ parent \in Hierarchies(MaxBones)
    /\ ignore \in [1..MaxBones -> BOOLEAN]
    /\ skel_call = NoSkelCall
    /\ anim_attr = <<>> /\ clip_call = <<>>
    /\ skin_in = <<>> /\ skin_out = <<>> /\ skin_imp = <<>>
    /\ anim_in = <<>> /\ anim_file = <<>> /\ anim_imp = <<>>
    /\ swap_call = <<>> /\ quat_sign = <<>>
    /\ mesh_in = <<>> /\ mesh_out = <<>> /\ mesh_imp = <<>>

\* a call of get_skeleton_hierarchy
ResolveHierarchy ==
    /\ \E bl \in BoneLists :
          LET h == get_skeleton_hierarchy(bl)
          IN  skel_call' = [op |-> "hierarchy", bone_list |-> bl, ok |-> h.ok,
                            bones |-> h.bones, info |-> <<>>]
    /\ UNCHANGED <<parent, ignore, clipVars, skinVars, animVars, swapVars, meshVars>>

\* a call of get_mesh_skeleton_info on a mesh bound to a skin cluster
MeshSkeletonInfo ==
    /\ \E bl \in BoneLists :
          LET r == get_mesh_skeleton_info(bl)
          IN  skel_call' = [op |-> "info", bone_list |-> bl, ok |-> r.ok,
                            bones |-> r.bones, info |-> r.info]
    /\ UNCHANGED <<parent, ignore, clipVars, skinVars, animVars, swapVars, meshVars>>

NextSkel == ResolveHierarchy \/ MeshSkeletonInfo

(***************************************************************************)
(* Skin weights: get_mesh_skin_info packs them, create_skin unpacks them.  *)
(* A skin cluster is its influence objects (skin_bones), its maximum       *)
(* influences setting (max_inf), and weights[k][v + 1], the weight of the  *)
(* k-th influence object on vertex v; Python's indices, which count from   *)
(* 0, are kept in the packed arrays.                                       *)
(***************************************************************************)
PDX_MAXSKININFS == 4

MaxVerts == 2

\* the smallest skeleton on which a vertex can have more influences than fit
MaxSkinBones == PDX_MAXSKININFS + 1

\* slice s[a : b] of a Python list
Slice(s, a, b) ==
    LET hi == IF b < Len(s) THEN b ELSE Len(s)
    IN  IF a >= hi THEN <<>> ELSE SubSeq(s, a + 1, hi)

\* the first influence object that all_bones.index(bone) does not find, 0 when
\* every one is found
RECURSIVE MissingBoneFrom(_, _, _)
MissingBoneFrom(skin_bones, all_bones, k) ==
    IF k > Len(skin_bones) THEN 0
    ELSE IF IndexOf(all_bones, skin_bones[k]) = 0 THEN skin_bones[k]
    ELSE MissingBoneFrom(skin_bones, all_bones, k + 1)

\* (mutant) an influence object missing from the hierarchy is passed over
MissingBone_Skipped(skin_bones, all_bones) == 0

MissingBone(skin_bones, all_bones) == MissingBoneFrom(skin_bones, all_bones, 1)

\* vertex_ids, or range(len(maya_mesh.verts)) when none were supplied
VertexIds(skin) ==
    IF skin.ids_given THEN skin.vertex_ids ELSE [i \in 1..skin.nverts |-> i - 1]

\* the keys of vert_weights[vert_id]: the bone indices of the influences whose
\* weight on the vertex is not 0.0
WeightKeys(skin, all_bones, vert_id) ==
    {IndexOf(all_bones, skin.skin_bones[k]) - 1 :
        k \in {x \in 1..Len(skin.skin_bones) :
                  /\ vert_id \in 0..(skin.nverts - 1)
                  /\ skin.weights[x][vert_id + 1] # 0}}

\* vert_weights[vert_id][bone_index]
WeightOf(skin, all_bones, vert_id, bone_index) ==
    skin.weights[IndexOf(skin.skin_bones, all_bones[bone_index + 1])][vert_id + 1]

\* the keys of a dict of small ints in iteration order: increasing
RECURSIVE Ascending(_)
Ascending(S) ==
    IF S = {} THEN <<>>
    ELSE LET m == CHOOSE x \in S : \A y \in S : x <= y
         IN  <<m>> \o Ascending(S \ {m})

\* [x] * n
Repeat(x, n) == [i \in 1..n |-> x]

Padding(n) == IF n < PDX_MAXSKININFS THEN PDX_MAXSKININFS - n ELSE 0

\* (mutant) the padding written ahead of the influences
IxBlock_PaddingFirst(skin, all_bones, vtx) ==
    LET keys == Ascending(WeightKeys(skin, all_bones, vtx))
    IN  Repeat(-1, Padding(Len(keys))) \o keys

\* what the final loop of get_mesh_skin_info appends to 'ix' for one vertex
IxBlock(skin, all_bones, vtx) ==
    LET keys == Ascending(WeightKeys(skin, all_bones, vtx))
    IN  keys \o Repeat(-1, Padding(Len(keys)))

\* and to 'w'
WBlock(skin, all_bones, vtx) ==
    LET keys == Ascending(WeightKeys(skin, all_bones, vtx))
    IN  [i \in 1..Len(keys) |-> WeightOf(skin, all_bones, vtx, keys[i])]
            \o Repeat(0, Padding(Len(keys)))

RECURSIVE Blocks(_, _, _, _, _)
Blocks(Block(_, _, _), skin, all_bones, vids, i) ==
    IF i > Len(vids) THEN <<>>
    ELSE Block(skin, all_bones, vids[i]) \o Blocks(Block, skin, all_bones, vids, i + 1)

SkinResult(ok, err, bone, bones, ix, w) ==
    [ok |-> ok, err |-> err, bone |-> bone, bones |-> bones, ix |-> ix, w |-> w]

\* get_mesh_skin_info(maya_mesh, vertex_ids) for a mesh bound to the skin
\* cluster: the skin dictionary, or the RuntimeError raised ("root" by
\* get_skeleton_hierarchy, "excluded" for the influence object `bone`)
get_mesh_skin_info(skin) ==
    LET h == get_skeleton_hierarchy(skin.skin_bones)
        missing == MissingBone(skin.skin_bones, h.bones)
        vids == VertexIds(skin)
    IN  IF ~h.ok THEN SkinResult(FALSE, "root", 0, <<>>, <<>>, <<>>)
        ELSE IF missing # 0
        THEN SkinResult(FALSE, "excluded", missing, <<>>, <<>>, <<>>)
        ELSE SkinResult(TRUE, "", 0, <<skin.max_inf>>,
                        Blocks(IxBlock, skin, h.bones, vids, 1),
                        Blocks(WBlock, skin, h.bones, vids, 1))

\* what j in jts / wts[jts.index(j)] gives create_skin for joint j
JointWeight(jts, wts, j) ==
    IF IndexOf(jts, j) = 0 THEN 0 ELSE wts[IndexOf(jts, j)]

\* the number of slots create_skin reads for each vertex: the file's header
SlotsRead(PDX_skin) == PDX_skin.bones[1]

\* create_skin(PDX_skin, mesh, skeleton) with max_infs = PDX_MAXSKININFS: the
\* weights handed to setWeights, weights[vtx + 1][j + 1] for vertex vtx and
\* joint j, or the KeyError raised when the arrays do not end on a block
create_skin(PDX_skin, n_joints) ==
    LET max_infs == PDX_MAXSKININFS
        num_infs == SlotsRead(PDX_skin)
        n_keys == Len(PDX_skin.ix) \div max_infs
        n_steps == (Len(PDX_skin.ix) + max_infs - 1) \div max_infs
        jts(vtx) == Slice(PDX_skin.ix, max_infs * vtx, max_infs * vtx + num_infs)
        wts(vtx) == Slice(PDX_skin.w, max_infs * vtx, max_infs * vtx + num_infs)
    IN  IF n_steps > n_keys THEN [ok |-> FALSE, err |-> "KeyError", weights |-> <<>>]
        ELSE [ok |-> TRUE, err |-> "",
              weights |-> [v \in 1..n_keys |->
                            [j \in 1..n_joints |->
                                JointWeight(jts(v - 1), wts(v - 1), j - 1)]]]

\* the skin clusters exported -----------------------------------------------
SkinWeight(bone, vert_id) == 10 * bone + vert_id + 1

\* weights in which the even vertices are weighted to the first count[v]
\* influence objects and the odd ones to the last count[v]
SkinWeights(skin_bones, nverts, count) ==
    [k \in 1..Len(skin_bones) |->
        [v \in 1..nverts |->
            IF \/ (v % 2 = 1 /\ k <= count[v])
               \/ (v % 2 = 0 /\ k > Len(skin_bones) - count[v])
            THEN SkinWeight(skin_bones[k], v - 1)
            ELSE 0]]

Skin(skin_bones, max_inf, nverts, count, ids_given, vertex_ids) ==
    [skin_bones |-> skin_bones, max_inf |-> max_inf, nverts |-> nverts,
     weights |-> SkinWeights(skin_bones, nverts, count),
     ids_given |-> ids_given, vertex_ids |-> vertex_ids]

ChainOf(n) == [b \in 1..n |-> b - 1]

PackedInfluences ==
    {[k \in 1..MaxSkinBones |-> k],
     [k \in 1..MaxSkinBones |-> MaxSkinBones + 1 - k],
     <<MaxSkinBones - 1, 1>>}

SkinPending == SkinResult(FALSE, "pending", 0, <<>>, <<>>, <<>>)
ImportPending == [ok |-> FALSE, err |-> "pending", weights |-> <<>>]

\* either a chain of MaxSkinBones bones, none ignored, skinned to MaxVerts
\* vertices with any maximum influences setting and any vertex id list; or any
\* hierarchy over MaxBones bones with any ignore flags and any influence
\* objects, skinned to one vertex
InitSkin ==
    /\ \/ /\ parent = ChainOf(MaxSkinBones)
          /\ ignore = [b \in 1..MaxSkinBones |-> FALSE]
          /\ \E sb \in PackedInfluences, mi \in 1..MaxSkinBones,
                given \in BOOLEAN,
                ids \in SeqsUpTo(0..(MaxVerts - 1), MaxVerts) :
                \E count \in [1..MaxVerts -> 0..Len(sb)] :
                    /\ (~given => ids = <<>>)
                    /\ skin_in = Skin(sb, mi, MaxVerts, count, given, ids)
       \/ /\ parent \in Hierarchies(MaxBones)
          /\ ignore \in [1..MaxBones -> BOOLEAN]
          /\ \E sb \in DistinctSeqs(1..MaxBones, MaxBones), c \in BOOLEAN :
                skin_in = Skin(sb, PDX_MAXSKININFS, 1,
                               <<IF c THEN Len(sb) ELSE 0>>, FALSE, <<>>)
    /\ skin_out = SkinPending
    /\ skin_imp = ImportPending
    /\ skel_call = <<>>
    /\ anim_attr = <<>> /\ clip_call = <<>>
    /\ anim_in = <<>> /\ anim_file = <<>> /\ anim_imp = <<>>
    /\ swap_call = <<>> /\ quat_sign = <<>>
    /\ mesh_in = <<>> /\ mesh_out = <<>> /\ mesh_imp = <<>>

\* export_meshfile's call of get_mesh_skin_info
ExportSkin ==
    /\ skin_out.err = "pending"
    /\ skin_out' = get_mesh_skin_info(skin_in)
    /\ UNCHANGED <<skin_in, skin_imp, skelVars, clipVars, animVars, swapVars, meshVars>>

\* import_meshfile's call of create_skin on the exported skin, with the
\* skeleton create_skeleton built from the exported bone list
ImportSkin ==
    /\ skin_out.ok
    /\ skin_imp.err = "pending"
    /\ skin_imp' = create_skin(skin_out,
                               Len(get_skeleton_hierarchy(skin_in.skin_bones).bones))
    /\ UNCHANGED <<skin_in, skin_out, skelVars, clipVars, animVars, swapVars, meshVars>>

NextSkin == ExportSkin \/ ImportSkin

(***************************************************************************)
(* Packing and unpacking of animation samples.                             *)
(*                                                                         *)
(* A scene has an ordered list of bones with distinct names and, for every *)
(* bone and frame, a translation (3 numbers), a rotation quaternion (4)    *)
(* and a scale (3 axes), given in tenths of the step they are rounded to   *)
(* (PDX_ROUND_TRANS, PDX_ROUND_ROT, PDX_ROUND_SCALE decimals).  Sample      *)
(* values carry the bone's position and the frame, so that samples of      *)
(* different bones or frames are different numbers.                        *)
(***************************************************************************)
MaxFrames == 2

BoneA == <<"a">>
BoneB == <<"b">>
BoneNsA == <<"n", ":", "a">>
\* the skeletons exported, as get_skeleton_hierarchy lists them
AnimBoneLists ==
    {<<BoneA>>, <<BoneNsA>>, <<BoneA, BoneB>>, <<BoneB, BoneNsA>>,
     <<BoneA, BoneNsA>>, <<BoneNsA, BoneA>>, <<BoneA, BoneB, BoneNsA>>}
ScaleKinds == {"const", "axis0", "axis1"}
Channels == <<"t", "q", "s">>

\* how a bone moves over the frame range: its translation is constant, moves
\* by less than the rounding step ("jitter") or moves; its rotation is constant
\* or not; its scale is constant or changes on axis 0 or on axis 1 only
TranslationKinds == {"const", "jitter", "moves"}
Motions == [t : TranslationKinds, q : BOOLEAN, s : ScaleKinds]

\* round(x, ndigits) of Python 2, on a value in tenths of the rounding step:
\* to the nearest step, halves away from zero
round(x) ==
    IF x >= 0 THEN ((x + 5) \div 10) * 10 ELSE -(((-x) + 5) \div 10) * 10

\* util_round(data, ndigits)
util_round(data) == [k \in 1..Len(data) |-> round(data[k])]

\* clean_imported_name(name)
clean_imported_name(name) ==
    LET parts == Split(name, ":")
        clean_name == parts[Len(parts)]
    IN  [i \in 1..Len(clean_name) |->
            IF clean_name[i] = "|" THEN "_" ELSE clean_name[i]]

\* the (game space) transform of bone i at frame f, before rounding
Translation(scene, i, f) ==
    <<1000 * i + (IF scene.motion[i].t = "moves" THEN 10 * f
                  ELSE IF scene.motion[i].t = "jitter" THEN f
                  ELSE 0), 10, 20>>

Rotation(scene, i, f) ==
    <<1000 * i + 100 + (IF scene.motion[i].q THEN 10 * f ELSE 0), 30, 40, 50>>

Scale(scene, i, f) ==
    <<1000 * i + 200 + (IF scene.motion[i].s = "axis0" THEN 10 * f ELSE 0),
      60 + (IF scene.motion[i].s = "axis1" THEN 10 * f ELSE 0),
      60>>

\* frames_data[bone.name()]: the transforms sampled frame by frame
frames_data(scene, i) ==
    [c \in Range(Channels) |->
        [f \in 1..scene.frames |->
            IF c = "t" THEN Translation(scene, i, f)
            ELSE IF c = "q" THEN Rotation(scene, i, f)
            ELSE Scale(scene, i, f)]]

\* frames_data[bone.name()] turned into the rounded t_list, q_list, s_list
AttrLists(scene, i) ==
    [c \in Range(Channels) |->
        [f \in 1..scene.frames |-> util_round(frames_data(scene, i)[c][f])]]

\* (mutant) every attribute counts as animated
IsAnimated_Always(attr_list) == TRUE

\* len(set(attr_list)) != 1
IsAnimated(attr_list) == Cardinality(Range(attr_list)) # 1

\* get_scene_animdata(export_bones, startframe, endframe): for every bone, in
\* order, its name and the sample lists of its animated attributes
get_scene_animdata(scene) ==
    [i \in 1..Len(scene.bones) |->
        LET lists == AttrLists(scene, i)
        IN  [name |-> scene.bones[i],
             keys |-> [c \in {a \in Range(Channels) : IsAnimated(lists[a])} |->
                          lists[c]]]]

\* the 'sa' string of a bone: its animated attributes in the order t, q, s
sample_types(keys) == SelectSeq(Channels, LAMBDA c : c \in DOMAIN keys)

\* what one sample adds to its flat list: all of t and q, axis 0 of s
PackedSample(c, sample) == IF c = "s" THEN <<sample[1]>> ELSE sample

\* the inner loop of the packing: the bones' samples of attribute c at frame f
RECURSIVE PackBones(_, _, _, _)
PackBones(all_bone_keyframes, c, f, i) ==
    IF i > Len(all_bone_keyframes) THEN <<>>
    ELSE (IF c \in DOMAIN all_bone_keyframes[i].keys
          THEN PackedSample(c, all_bone_keyframes[i].keys[c][f])
          ELSE <<>>)
         \o PackBones(all_bone_keyframes, c, f, i + 1)

\* (mutant) bone-major packing: all frames of a bone, then the next bone
RECURSIVE PackFrames_BoneMajor(_, _, _, _)
PackFrames_BoneMajor(all_bone_keyframes, c, f, frame_samples) ==
    IF f > Len(all_bone_keyframes) THEN <<>>
    ELSE LET keys == all_bone_keyframes[f].keys
             RECURSIVE Frames(_)
             Frames(g) == IF g > frame_samples \/ c \notin DOMAIN keys THEN <<>>
                          ELSE PackedSample(c, keys[c][g]) \o Frames(g + 1)
         IN  Frames(1) \o PackFrames_BoneMajor(all_bone_keyframes, c, f + 1,
                                               frame_samples)

\* the outer loop of the packing: frame after frame
RECURSIVE PackFrames(_, _, _, _)
PackFrames(all_bone_keyframes, c, f, frame_samples) ==
    IF f > frame_samples THEN <<>>
    ELSE PackBones(all_bone_keyframes, c, f, 1)
         \o PackFrames(all_bone_keyframes, c, f + 1, frame_samples)

\* export_animfile(animpath, timestart, timeend): the info block and the
\* three flat sample lists (an attribute that is not set reads as empty)
export_animfile(scene) ==
    LET all_bone_keyframes == get_scene_animdata(scene)
    IN  [done |-> TRUE,
         sa |-> scene.frames,
         keyframes |-> all_bone_keyframes,
         info |-> [i \in 1..Len(scene.bones) |->
                      [tag |-> scene.bones[i],
                       sa |-> sample_types(all_bone_keyframes[i].keys)]],
         samples |-> [c \in Range(Channels) |->
                         PackFrames(all_bone_keyframes, c, 1, scene.frames)]]

\* the cleaned names of the info block's bones, in order
CleanTags(info) == [i \in 1..Len(info) |-> clean_imported_name(info[i].tag)]

\* (mutant) no bone is reported missing
bone_errors_None(info, joints) == <<>>

\* the bones of the info block that pmc.ls does not find among the joints
bone_errors(info, joints) ==
    SelectSeq(CleanTags(info), LAMBDA n : n \notin joints)

\* the bones of the info block that are found, and get their initial transform
found_bones(info, joints) ==
    SelectSeq(CleanTags(info), LAMBDA n : n \in joints)

\* the ordered dictionary of empty key lists, keyed by cleaned bone name: a
\* name met again keeps its place and takes the later bone's sample types
RECURSIVE KeyedFrom(_, _, _)
KeyedFrom(info, i, acc) ==
    IF i > Len(info) THEN acc
    ELSE LET bone_name == clean_imported_name(info[i].tag)
             key_data == [c \in Range(info[i].sa) |-> <<>>]
             entry == [name |-> bone_name, keys |-> key_data]
             p == IndexOf([k \in 1..Len(acc) |-> acc[k].name], bone_name)
         IN  KeyedFrom(info, i + 1,
                       IF p = 0 THEN Append(acc, entry)
                       ELSE [acc EXCEPT ![p] = entry])

\* one attribute of one bone in the cursor loop: cur is the cursors and the
\* dictionary, n the number of values read
ReadAttr(samples, cur, i, c, n) ==
    IF c \notin DOMAIN cur.keyframes[i].keys THEN cur
    ELSE [cur EXCEPT
            !.keyframes[i].keys[c] =
                Append(@, Slice(samples[c], cur.index[c], cur.index[c] + n)),
            !.index[c] = @ + n]

\* one bone of the cursor loop: s, then q, then t
ReadBone(samples, cur, i) ==
    ReadAttr(samples,
             ReadAttr(samples, ReadAttr(samples, cur, i, "s", 1), i, "q", 4),
             i, "t", 3)

RECURSIVE ReadBones(_, _, _)
ReadBones(samples, cur, i) ==
    IF i > Len(cur.keyframes) THEN cur
    ELSE ReadBones(samples, ReadBone(samples, cur, i), i + 1)

RECURSIVE ReadFrames(_, _, _, _)
ReadFrames(samples, cur, f, framecount) ==
    IF f > framecount THEN cur
    ELSE ReadFrames(samples, ReadBones(samples, cur, 1), f + 1, framecount)

\* the cursor loop of import_animfile over the whole file
all_bone_keyframes_read(file) ==
    ReadFrames(file.samples,
               [index |-> [c \in Range(Channels) |-> 0],
                keyframes |-> KeyedFrom(file.info, 1, <<>>)],
               1, file.sa).keyframes

\* the bones create_anim_keys is called for: those with a sample type
KeyedBones(keyframes) ==
    SelectSeq([k \in 1..Len(keyframes) |-> keyframes[k].name],
              LAMBDA n : \E k \in 1..Len(keyframes) :
                            /\ keyframes[k].name = n
                            /\ DOMAIN keyframes[k].keys # {})

\* what a call of import_animfile leaves behind: how it ended ("done" or the
\* exception raised), the missing bones listed in the error, the bones it
\* posed, the keyframes unpacked, the bones given animation curves, the name
\* and the playback range it set, and the number of calls so far
AnimImport(state, errors, posed, keyframes, keyed, animation_name, playback, imports) ==
    [state |-> state, bone_errors |-> errors, posed |-> posed,
     keyframes |-> keyframes, keyed |-> keyed,
     animation_name |-> animation_name, playback |-> playback, imports |-> imports]

NoAnimImport == AnimImport("pending", <<>>, <<>>, <<>>, <<>>, <<>>, <<>>, 0)

\* import_animfile(animpath, timestart) of the file into a scene with the
\* given joints whose skeleton root carries attr, animpath naming the
\* animation: the record of the call and the root's attribute after it
import_animfile(file, joints, attr, animation_name, timestart, imports) ==
    LET playback == <<timestart, timestart + file.sa - 1>>
        errors == bone_errors(file.info, joints)
        posed == found_bones(file.info, joints)
        keyframes == all_bone_keyframes_read(file)
        clip == edit_animation_clip(attr, animation_name, timestart,
                                    timestart + file.sa - 1)
    IN  IF errors # <<>>
        THEN [imp |-> AnimImport("RuntimeError", errors, posed, <<>>, <<>>,
                                 animation_name, playback, imports + 1),
              attr |-> attr]
        ELSE [imp |-> AnimImport(IF clip.err = "" THEN "done" ELSE clip.err,
                                 <<>>, posed, keyframes, KeyedBones(keyframes),
                                 animation_name, playback, imports + 1),
              attr |-> clip.attr]

\* the scenes: one of the skeletons, 1..MaxFrames frames, any motion; the
\* file is read back into the exporting scene, or into one whose joints have
\* the cleaned names (as import_meshfile creates them)
InitAnim ==
    /\ anim_in \in
          UNION {
             {[bones |-> b, frames |-> n, motion |-> m, timestart |-> 1, joints |-> j] :
                 n \in 1..MaxFrames,
                 m \in [1..Len(b) -> Motions],
                 j \in {Range(b), {clean_imported_name(x) : x \in Range(b)}}} :
             b \in AnimBoneLists}
    /\ anim_file = [done |-> FALSE]
    /\ anim_imp = NoAnimImport
    /\ anim_attr = AttrAbsent
    /\ clip_call = <<>>
    /\ parent = <<>>
    /\ ignore = <<>>
    /\ skel_call = <<>>
    /\ skin_in = <<>>
    /\ skin_out = <<>>
    /\ skin_imp = <<>>
    /\ swap_call = <<>> /\ quat_sign = <<>>
    /\ mesh_in = <<>> /\ mesh_out = <<>> /\ mesh_imp = <<>>

\* a call of export_animfile on the scene
ExportAnim ==
    /\ ~anim_file.done
    /\ anim_file' = export_animfile(anim_in)
    /\ UNCHANGED <<anim_in, anim_imp, clipVars, skelVars, skinVars, swapVars, meshVars>>

\* a call of import_animfile on the file written, the animation named walk
ImportAnim ==
    /\ anim_file.done
    /\ anim_imp.state = "pending"
    /\ LET r == import_animfile(anim_file, anim_in.joints, anim_attr, Walk,
                                anim_in.timestart, anim_imp.imports)
       IN  /\ anim_imp' = r.imp
           /\ anim_attr' = r.attr
    /\ UNCHANGED <<anim_in, anim_file, clip_call, skelVars, skinVars, swapVars, meshVars>>

NextAnim == ExportAnim \/ ImportAnim

(***************************************************************************)
(* Animation files imported under a name, into skeletons that have clips.  *)
(***************************************************************************)
MaxImports == 2

BoneNsB == <<"n", ":", "b">>

\* the skeletons exported: one bone; two bones of which one is in a namespace;
\* two bones in a namespace
ImportBoneLists == {<<BoneA>>, <<BoneB, BoneNsA>>, <<BoneNsA, BoneNsB>>}

\* a bone that does not move, and one animated on every attribute
Still == [t |-> "const", q |-> FALSE, s |-> "const"]
Moving == [t |-> "moves", q |-> TRUE, s |-> "axis0"]

\* what the root bone's attribute holds before the import: nothing, the empty
\* string a removed last clip leaves, or the clips of earlier edits
ImportTables ==
    {AttrAbsent, AttrStr(<<>>),
     set_animation_clips(<<AnimClip(Run, 0, 10)>>),
     set_animation_clips(<<AnimClip(Walk, 11, 20)>>),
     set_animation_clips(<<AnimClip(Run, 0, 10), AnimClip(Walk, 11, 20)>>)}

\* the names of the files imported and the start frames asked for
ImportNames == {Walk, RunTilde}
ImportStarts == {1, 5, -3}

InitImport ==
    /\ anim_in \in
          UNION {
             {[bones |-> b, frames |-> n, motion |-> m, timestart |-> 1, joints |-> j] :
                 n \in 1..MaxFrames,
                 m \in [1..Len(b) -> {Still, Moving}],
                 j \in {Range(b), {clean_imported_name(x) : x \in Range(b)}}} :
             b \in ImportBoneLists}
    /\ anim_file = [done |-> FALSE]
    /\ anim_imp = NoAnimImport
    /\ anim_attr \in ImportTables
    /\ clip_call = <<>>
    /\ parent = <<>>
    /\ ignore = <<>>
    /\ skel_call = <<>>
    /\ skin_in = <<>>
    /\ skin_out = <<>>
    /\ skin_imp = <<>>
    /\ swap_call = <<>> /\ quat_sign = <<>>
    /\ mesh_in = <<>> /\ mesh_out = <<>> /\ mesh_imp = <<>>

\* a call of import_animfile on the file written, under any of the names and
\* start frames, up to MaxImports times
ImportAnimNamed ==
    /\ anim_file.done
    /\ anim_imp.imports < MaxImports
    /\ \E animation_name \in ImportNames, timestart \in ImportStarts :
          LET r == import_animfile(anim_file, anim_in.joints, anim_attr,
                                   animation_name, timestart, anim_imp.imports)
          IN  /\ anim_imp' = r.imp
              /\ anim_attr' = r.attr
    /\ UNCHANGED <<anim_in, anim_file, clip_call, skelVars, skinVars, swapVars, meshVars>>

NextImport == ExportAnim \/ ImportAnimNamed

(***************************************************************************)
(* swap_coord_space.                                                       *)
(*                                                                         *)
(* The data are vectors and UV pairs with whole-number components, 4x4     *)
(* matrices, and the 24 unit quaternions whose components are whole or     *)
(* half numbers (written in halves: <<x, y, z, w>> with x*x + y*y + z*z +  *)
(* w*w = 4), whose rotation matrices have whole-number entries.            *)
(***************************************************************************)
MaxCoord == 2

Coords == (-MaxCoord)..MaxCoord

\* the number 1.0: lengths and UV coordinates are counted in tenths of
\* 10^-PDX_DECIMALPTS, the steps round(x) rounds to being the multiples of 10
Unit == 1000000

\* (mutant) a quarter turn about X in the place of the mirror along Z
SPACE_MATRIX_QuarterTurn ==
    <<<<1, 0, 0, 0>>, <<0, 0, -1, 0>>, <<0, 1, 0, 0>>, <<0, 0, 0, 1>>>>

SPACE_MATRIX ==
    <<<<1, 0, 0, 0>>, <<0, 1, 0, 0>>, <<0, 0, -1, 0>>, <<0, 0, 0, 1>>>>

Identity == [r \in 1..4 |-> [c \in 1..4 |-> IF r = c THEN 1 ELSE 0]]

\* MMatrix * MMatrix
MatMul(a, b) ==
    [r \in 1..4 |-> [c \in 1..4 |->
        a[r][1] * b[1][c] + a[r][2] * b[2][c] + a[r][3] * b[3][c] + a[r][4] * b[4][c]]]

\* the matrices with one entry 1 or -1 in every row and column
SignedPermutations ==
    {[r \in 1..4 |-> [c \in 1..4 |-> IF c = p[r] THEN sg[r] ELSE 0]] :
        p \in {q \in [1..4 -> 1..4] : \A i, j \in 1..4 : q[i] = q[j] => i = j},
        sg \in [1..4 -> {1, -1}]}

\* MMatrix.inverse(), for a matrix of that kind
Inverse(m) == CHOOSE x \in SignedPermutations : MatMul(m, x) = Identity

\* MVector * MMatrix: the row vector times the matrix's upper 3x3 block
VecMul(v, m) ==
    [c \in 1..3 |-> v[1] * m[1][c] + v[2] * m[2][c] + v[3] * m[3][c]]

UnitQuaternions ==
    {q \in [1..4 -> -2..2] : q[1] * q[1] + q[2] * q[2] + q[3] * q[3] + q[4] * q[4] = 4}

\* MQuaternion.asMatrix(), for <<x, y, z, w>> in halves (row vector convention)
asMatrix(q) ==
    LET x == q[1]
        y == q[2]
        z == q[3]
        w == q[4]
    IN  <<<<1 - (y * y + z * z) \div 2, (x * y + w * z) \div 2, (x * z - w * y) \div 2, 0>>,
          <<(x * y - w * z) \div 2, 1 - (x * x + z * z) \div 2, (y * z + w * x) \div 2, 0>>,
          <<(x * z + w * y) \div 2, (y * z - w * x) \div 2, 1 - (x * x + y * y) \div 2, 0>>,
          <<0, 0, 0, 1>>>>

Negated(q) == [k \in 1..Len(q) |-> -q[k]]

\* of the two unit quaternions of a rotation matrix, the one whose first
\* non-zero component among w, x, y, z is positive
Canonical(m) ==
    CHOOSE q \in UnitQuaternions :
        /\ asMatrix(q) = m
        /\ \/ q[4] > 0
           \/ q[4] = 0 /\ q[1] > 0
           \/ q[4] = 0 /\ q[1] = 0 /\ q[2] > 0
           \/ q[4] = 0 /\ q[1] = 0 /\ q[2] = 0 /\ q[3] > 0

\* MTransformationMatrix(m).rotation(asQuaternion=True): one of the two unit
\* quaternions of the rotation, which one being the host's choice
rotation(m) ==
    IF quat_sign[m] = 1 THEN Canonical(m) ELSE Negated(Canonical(m))

Datum(type, v) == [type |-> type, v |-> v]

\* swap_coord_space(data); type "error" stands for NotImplementedError
swap_coord_space(data) ==
    IF data.type = "MMatrix"
    THEN Datum("MMatrix",
               MatMul(MatMul(SPACE_MATRIX, data.v), Inverse(SPACE_MATRIX)))
    ELSE IF data.type = "MQuaternion"
    THEN Datum("MQuaternion",
               rotation(MatMul(MatMul(SPACE_MATRIX, asMatrix(data.v)),
                               Inverse(SPACE_MATRIX))))
    ELSE IF data.type = "MVector" \/ Len(data.v) = 3
    THEN Datum("MVector", VecMul(data.v, SPACE_MATRIX))
    ELSE IF Len(data.v) = 2
    THEN Datum("tuple", <<data.v[1], Unit - data.v[2]>>)
    ELSE Datum("error", <<>>)

\* a rigid transform: the rotation of q, then a translation row
Transform(q, t) ==
    [r \in 1..4 |-> [c \in 1..4 |->
        IF r = 4 /\ c < 4 THEN t[c] ELSE asMatrix(q)[r][c]]]

\* the matrices given: rigid transforms, and a matrix of 16 different entries
Matrices ==
    {Transform(q, <<a, b, MaxCoord>>) :
        q \in UnitQuaternions, a \in {0, 1}, b \in {0, -1}}
    \cup {[r \in 1..4 |-> [c \in 1..4 |-> 4 * (r - 1) + c]]}

\* the vectors, UV pairs and other plain lists of numbers given
Lists ==
    [1..3 -> Coords] \cup [1..2 -> Coords]
    \cup {<<a>> : a \in Coords} \cup {<<a, a, a, a>> : a \in Coords}

\* the rotation matrices the host is asked to read a quaternion off when d is
\* swapped twice
MatricesRead(d) ==
    IF d.type # "MQuaternion" THEN {}
    ELSE {asMatrix(d.v),
          MatMul(MatMul(SPACE_MATRIX, asMatrix(d.v)), Inverse(SPACE_MATRIX))}

InitSwap ==
    /\ \/ \E d \in {Datum("MVector", v) : v \in [1..3 -> Coords]}
                       \cup {Datum("list", v) : v \in Lists} :
             swap_call = [orig |-> d, data |-> d, times |-> 0]
       \/ \E d \in {Datum("MMatrix", m) : m \in Matrices} :
             swap_call = [orig |-> d, data |-> d, times |-> 0]
       \/ \E d \in {Datum("MQuaternion", q) : q \in UnitQuaternions} :
             swap_call = [orig |-> d, data |-> d, times |-> 0]
    /\ quat_sign \in [MatricesRead(swap_call.orig) -> {1, -1}]
    /\ mesh_in = <<>> /\ mesh_out = <<>> /\ mesh_imp = <<>>
    /\ anim_attr = <<>> /\ clip_call = <<>>
    /\ parent = <<>> /\ ignore = <<>> /\ skel_call = <<>>
    /\ skin_in = <<>> /\ skin_out = <<>> /\ skin_imp = <<>>
    /\ anim_in = <<>> /\ anim_file = <<>> /\ anim_imp = <<>>

\* a call of swap_coord_space on the datum, or on what the last call returned
SwapCoordSpace ==
    /\ swap_call.times < 2
    /\ swap_call.data.type # "error"
    /\ swap_call' = [swap_call EXCEPT !.data = swap_coord_space(swap_call.data),
                                      !.times = @ + 1]
    /\ UNCHANGED <<quat_sign, meshVars, clipVars, skelVars, skinVars, animVars>>

NextSwap == SwapCoordSpace

(***************************************************************************)
(* get_mesh_info, and export_meshfile's use of it.                         *)
(***************************************************************************)
MaxFaces == 3
MaxUVSets == 2

\* the keys 'u0'..'u3' of mesh_dict
UVChannels == 4

\* a face of the host mesh: its index, the ids of its vertices
\* (face.getVertices()), the vertices of its triangles
\* (getPolygonTriangleVertices), and per face-relative vertex the ids of its
\* normal, of its UV in every UV set (-1: unmapped, getUVIndex raises
\* RuntimeError) and of its tangent
MeshFace(index, verts, tris, normal_ids, uv_ids, tangent_ids) ==
    [index |-> index, verts |-> verts, tris |-> tris,
     normal_ids |-> normal_ids, uv_ids |-> uv_ids, tangent_ids |-> tangent_ids]

\* the vertices of face f of a strip of triangles, wound alike
StripVerts(f) == IF f % 2 = 0 THEN <<f, f + 1, f + 2>> ELSE <<f + 1, f, f + 2>>

\* the id a face-relative vertex has in a list holding one entry per
\* face-vertex of the mesh
FaceVertexId(index, local_id, width) == index * width + (local_id - 1)

\* the UV ids of a face on a UV set mapped in the given way: every vertex has
\* one UV ("shared"), every face-vertex its own ("seam"), or the faces after
\* the first have none ("partial")
UVIds(mapping, index, verts) ==
    [k \in 1..Len(verts) |->
        IF mapping = "shared" THEN verts[k]
        ELSE IF mapping = "seam" THEN FaceVertexId(index, k, Len(verts))
        ELSE IF index = 0 THEN verts[k] ELSE -1]

HostFace(index, verts, tris, mappings) ==
    MeshFace(index, verts, tris,
             [k \in 1..Len(verts) |-> FaceVertexId(index, k, Len(verts))],
             [i \in 1..Len(mappings) |-> UVIds(mappings[i], index, verts)],
             [k \in 1..Len(verts) |-> FaceVertexId(index, k, Len(verts))])

\* the faces of a mesh of n triangles: a strip of n triangular faces, or one
\* face of n + 2 vertices that the host triangulates as a fan
Faces(kind, n, mappings) ==
    IF kind = "strip"
    THEN [f \in 1..n |-> HostFace(f - 1, StripVerts(f - 1), <<StripVerts(f - 1)>>,
                                  mappings)]
    ELSE <<HostFace(0, [k \in 1..(n + 2) |-> k - 1],
                    [t \in 1..n |-> <<0, t, t + 1>>], mappings)>>

\* mesh.getPoints(space='world'): where the vertices are
Point(layout, v) ==
    IF layout = "spread" THEN <<v * Unit, (v % 2) * Unit + 4, -(v * Unit) - 6>>
    ELSE IF layout = "mirror" THEN <<-(v * Unit), 16, v * Unit>>
    ELSE <<0, Unit, -Unit>>

\* mesh.getNormals(space='world'), per face-vertex: one normal for the whole
\* mesh ("smooth"), one per face ("hard"), or normals that differ between
\* faces by less than the rounding step ("near")
Normal(shading, index) ==
    IF shading = "smooth" THEN <<0, 0, Unit>>
    ELSE IF shading = "hard" THEN <<index * 1000, 0, Unit>>
    ELSE <<index, 0, Unit>>

\* mesh.getUVs(uvSet=uv_set): the UV with the given id in UV set i
UVCoord(i, uv_id) == <<uv_id * 1000 + i * 10 + 3, Unit - uv_id * 100>>

\* mesh.getTangents(space='world', uvSet=uv_setnames[0]), per face-vertex
Tangent(index) == <<Unit, 0, index>>

\* the host mesh handed to get_mesh_info, with the function's two flags
Mesh(kind, n, layout, shading, mappings, skip_merge_vertices, round_data) ==
    LET meshfaces == Faces(kind, n, mappings)
        width == Len(meshfaces[1].verts)
        corners == Len(meshfaces) * width
    IN  [meshfaces |-> meshfaces,
         vertices |-> [k \in 1..(n + 2) |-> Point(layout, k - 1)],
         normals |-> [k \in 1..corners |-> Normal(shading, (k - 1) \div width)],
         uv_coords |-> [i \in 1..Len(mappings) |->
                           [k \in 1..(corners + n + 2) |-> UVCoord(i - 1, k - 1)]],
         tangents |-> [k \in 1..corners |-> Tangent((k - 1) \div width)],
         skip_merge_vertices |-> skip_merge_vertices,
         round_data |-> round_data]

\* the MeshFace component a shading group selects: the faces from the i-th on
FacesFrom(mesh, i) ==
    [mesh EXCEPT !.meshfaces = Slice(mesh.meshfaces, i - 1, Len(mesh.meshfaces))]

\* a triangle corner: the tri vert of a face
TriVert(face, vert_id) == [face |-> face, vert_id |-> vert_id]

\* the tri verts of a face in the order the two inner loops visit them
RECURSIVE FaceTriVerts(_, _)
FaceTriVerts(face, tri) ==
    IF tri > Len(face.tris) THEN <<>>
    ELSE [k \in 1..3 |-> TriVert(face, face.tris[tri][k])]
             \o FaceTriVerts(face, tri + 1)

\* and those of the faces in the order of the outer loop
RECURSIVE TriVertsFrom(_, _)
TriVertsFrom(meshfaces, f) ==
    IF f > Len(meshfaces) THEN <<>>
    ELSE FaceTriVerts(meshfaces[f], 1) \o TriVertsFrom(meshfaces, f + 1)

\* swap_coord_space(data), then util_round(list(data), PDX_DECIMALPTS) if
\* round_data
ToGameSpace(mesh, data) ==
    LET swapped == swap_coord_space(Datum("list", data)).v
    IN  IF mesh.round_data THEN util_round(swapped) ELSE swapped

\* (mutant) no UV pair for an unmapped face-vertex
UnmappedUV_None == <<>>

\* the UV of a face-vertex that getUVIndex finds unmapped
UnmappedUV == <<0, 0>>

\* uv for UV set i (from 0) of the face-relative vertex
FaceVertexUV(mesh, face, local_id, i) ==
    LET vert_uv_id == face.uv_ids[i + 1][local_id]
    IN  IF vert_uv_id < 0 THEN UnmappedUV
        ELSE ToGameSpace(mesh, mesh.uv_coords[i + 1][vert_uv_id + 1])

UniqueVertex(id, p, n, uv) == [id |-> id, p |-> p, n |-> n, uv |-> uv]

\* new_vert for a tri vert
new_vert(mesh, tv) ==
    LET local_id == IndexOf(tv.face.verts, tv.vert_id)
    IN  UniqueVertex(tv.vert_id,
                     ToGameSpace(mesh, mesh.vertices[tv.vert_id + 1]),
                     ToGameSpace(mesh, mesh.normals[tv.face.normal_ids[local_id] + 1]),
                     [i \in 1..Len(mesh.uv_coords) |->
                         FaceVertexUV(mesh, tv.face, local_id, i - 1)])

\* _tangent for a tri vert
tangent(mesh, tv) ==
    ToGameSpace(mesh,
                mesh.tangents[tv.face.tangent_ids[IndexOf(tv.face.verts, tv.vert_id)] + 1])

\* (mutant) no stored vertex is ever found equal
unique_index_NeverFound(unique_verts, vert) == 0

\* unique_verts.index(new_vert), from 1; 0 stands for the ValueError
unique_index(unique_verts, vert) == IndexOf(unique_verts, vert)

\* (mutant) a tri vert stored only when no equal vertex is stored
StoresNew_OnlyUnseen(i, skip_merge_vertices) == i = 0

\* i is None or skip_merge_vertices, i = 0 standing for None
StoresNew(i, skip_merge_vertices) == i = 0 \/ skip_merge_vertices

\* (mutant) the number of vertices stored
LastStored_Count(unique_verts) == Len(unique_verts)

\* len(unique_verts) - 1: the index of the vertex just stored
LastStored(unique_verts) == Len(unique_verts) - 1

\* the loop over the tri verts from the k-th on: the unique vertices collected,
\* the tangents stored with them, and the stored index of every tri vert
RECURSIVE StoreFrom(_, _, _, _)
StoreFrom(mesh, tri_verts, k, st) ==
    IF k > Len(tri_verts) THEN st
    ELSE LET vert == new_vert(mesh, tri_verts[k])
             i == unique_index(st.unique_verts, vert)
         IN  IF StoresNew(i, mesh.skip_merge_vertices)
             THEN StoreFrom(mesh, tri_verts, k + 1,
                      [unique_verts |-> Append(st.unique_verts, vert),
                       ta |-> IF Len(mesh.uv_coords) > 0
                              THEN st.ta \o tangent(mesh, tri_verts[k]) \o <<Unit>>
                              ELSE st.ta,
                       dict_vert_idx |->
                           Append(st.dict_vert_idx,
                                  LastStored(Append(st.unique_verts, vert)))])
             ELSE StoreFrom(mesh, tri_verts, k + 1,
                      [st EXCEPT !.dict_vert_idx = Append(@, i - 1)])

\* (mutant) the host's winding kept
Winding_HostOrder(dict_vert_idx) == dict_vert_idx

\* what a triangle adds to 'tri'
Winding(dict_vert_idx) ==
    <<dict_vert_idx[1], dict_vert_idx[3], dict_vert_idx[2]>>

\* 'tri' for the stored indices of all tri verts
RECURSIVE TrisFrom(_, _)
TrisFrom(idx, t) ==
    IF 3 * t > Len(idx) THEN <<>>
    ELSE Winding(<<idx[3 * t - 2], idx[3 * t - 1], idx[3 * t]>>)
             \o TrisFrom(idx, t + 1)

\* the lists a field of the unique vertices extends a key of mesh_dict by
RECURSIVE Extended(_, _, _)
Extended(Field(_), unique_verts, k) ==
    IF k > Len(unique_verts) THEN <<>>
    ELSE Field(unique_verts[k]) \o Extended(Field, unique_verts, k + 1)

\* set([p[i + c] for i in xrange(0, len(p), 3)]), c from 0
VtxPos(p, c) == {p[3 * k + c + 1] : k \in 0..((Len(p) \div 3) - 1)}

\* (mutant) the origin taken for the corner of every box
min_Origin(S) == 0

min(S) == CHOOSE x \in S : \A y \in S : x <= y
max(S) == CHOOSE x \in S : \A y \in S : x >= y

MeshResult(err, mesh_dict, vert_id_list) ==
    [err |-> err, mesh_dict |-> mesh_dict, vert_id_list |-> vert_id_list]

MeshPending == MeshResult("pending", <<>>, <<>>)

\* get_mesh_info(maya_mesh, skip_merge_vertices, round_data): mesh_dict and
\* vert_id_list, or the KeyError of a UV set past 'u3'
get_mesh_info(mesh) ==
    LET uv_sets == Len(mesh.uv_coords)
        st == StoreFrom(mesh, TriVertsFrom(mesh.meshfaces, 1), 1,
                        [unique_verts |-> <<>>, ta |-> <<>>, dict_vert_idx |-> <<>>])
        P(v) == v.p
        N(v) == v.n
        p == Extended(P, st.unique_verts, 1)
        u(i) == LET U(v) == v.uv[i] IN Extended(U, st.unique_verts, 1)
    IN  IF uv_sets > UVChannels THEN MeshResult("KeyError", <<>>, <<>>)
        ELSE MeshResult("",
                 [p |-> p,
                  n |-> Extended(N, st.unique_verts, 1),
                  ta |-> st.ta,
                  u |-> [i \in 1..UVChannels |-> IF i <= uv_sets THEN u(i) ELSE <<>>],
                  tri |-> TrisFrom(st.dict_vert_idx, 1),
                  min |-> <<min(VtxPos(p, 0)), min(VtxPos(p, 1)), min(VtxPos(p, 2))>>,
                  max |-> <<max(VtxPos(p, 0)), max(VtxPos(p, 1)), max(VtxPos(p, 2))>>],
                 [k \in 1..Len(st.unique_verts) |-> st.unique_verts[k].id])

\* (mutant) the indices of a triangle taken in the order of the file
Connects_FileOrder(tris, i) == <<tris[i + 1], tris[i + 2], tris[i + 3]>>

\* what create_mesh appends to polygonConnects (and to uvIds) for the triangle
\* at tris[i], i from 0
Connects(tris, i) == <<tris[i + 3], tris[i + 2], tris[i + 1]>>

RECURSIVE ConnectsFrom(_, _)
ConnectsFrom(tris, i) ==
    IF i >= Len(tris) THEN <<>>
    ELSE Connects(tris, i) \o ConnectsFrom(tris, i + 3)

\* swap_coord_space of every three entries of a flat list
SwappedTriples(flat) ==
    [k \in 1..(Len(flat) \div 3) |->
        swap_coord_space(Datum("list", Slice(flat, 3 * (k - 1), 3 * k))).v]

\* uArray and vArray for a flat list of UV pairs
UVArrays(uv_data) ==
    [uArray |-> [k \in 1..(Len(uv_data) \div 2) |-> uv_data[2 * k - 1]],
     vArray |-> [k \in 1..(Len(uv_data) \div 2) |-> Unit - uv_data[2 * k]]]

MeshImportPending == [state |-> "pending"]

\* create_mesh(PDX_mesh): what is handed to MFnMesh.create, setVertexNormals,
\* setUVs and assignUVs; a key the exporter left out of the file as empty
\* reads as an empty list
create_mesh(PDX_mesh) ==
    [state |-> "created",
     numVertices |-> Len(PDX_mesh.p) \div 3,
     vertexArray |-> SwappedTriples(PDX_mesh.p),
     numPolygons |-> Len(PDX_mesh.tri) \div 3,
     polygonCounts |-> Repeat(3, Len(PDX_mesh.tri) \div 3),
     polygonConnects |-> ConnectsFrom(PDX_mesh.tri, 0),
     normalsIn |-> SwappedTriples(PDX_mesh.n),
     vertexList |-> IF PDX_mesh.n = <<>> THEN <<>>
                    ELSE [k \in 1..(Len(PDX_mesh.p) \div 3) |-> k - 1],
     uvCounts |-> Repeat(3, Len(PDX_mesh.tri) \div 3),
     uvIds |-> ConnectsFrom(PDX_mesh.tri, 0),
     uv_Ch |-> [idx \in 1..UVChannels |-> UVArrays(PDX_mesh.u[idx])]]

\* the meshes exported ------------------------------------------------------
MeshKinds == {"strip", "fan"}
Layouts == {"spread", "mirror", "stacked"}
Shadings == {"smooth", "hard", "near"}
UVMappings == {"shared", "seam", "partial"}

\* the mappings of the UV sets of a mesh: up to MaxUVSets sets, those mapped
\* alike next to each other
MappingRank(mapping) ==
    IF mapping = "shared" THEN 0 ELSE IF mapping = "seam" THEN 1 ELSE 2

UVSetMappings ==
    {m \in SeqsUpTo(UVMappings, MaxUVSets) :
        \A a, b \in 1..Len(m) : a < b => MappingRank(m[a]) <= MappingRank(m[b])}

\* how many bones weigh on the first vertex of the skinned shape; two weigh on
\* every other vertex
FirstVertexInfluences == {PDX_MAXSKININFS, MaxSkinBones}

\* a mesh of up to MaxFaces triangles with up to MaxUVSets UV sets, whole or
\* without its first face, on a shape skinned to a chain of MaxSkinBones bones
InitMesh ==
    /\ \E kind \in MeshKinds, n \in 1..MaxFaces, layout \in Layouts,
          shading \in Shadings, mappings \in UVSetMappings,
          skip \in BOOLEAN, round_data \in BOOLEAN, from \in 1..2,
          first \in FirstVertexInfluences :
          /\ from <= Len(Faces(kind, n, mappings))
          /\ mesh_in = FacesFrom(Mesh(kind, n, layout, shading, mappings,
                                      skip, round_data), from)
          /\ skin_in = Skin([k \in 1..MaxSkinBones |-> k], PDX_MAXSKININFS, n + 2,
                            [v \in 1..(n + 2) |-> IF v = 1 THEN first ELSE 2],
                            FALSE, <<>>)
    /\ mesh_out = MeshPending
    /\ mesh_imp = MeshImportPending
    /\ skin_out = SkinPending
    /\ skin_imp = ImportPending
    /\ parent = ChainOf(MaxSkinBones)
    /\ ignore = [b \in 1..MaxSkinBones |-> FALSE]
    /\ skel_call = <<>>
    /\ anim_attr = <<>> /\ clip_call = <<>>
    /\ anim_in = <<>> /\ anim_file = <<>> /\ anim_imp = <<>>
    /\ swap_call = <<>> /\ quat_sign = <<>>

\* export_meshfile's call of get_mesh_info on the faces of a shading group
GetMeshInfo ==
    /\ mesh_out.err = "pending"
    /\ mesh_out' = get_mesh_info(mesh_in)
    /\ UNCHANGED <<mesh_in, mesh_imp, skinVars, skelVars, clipVars, animVars, swapVars>>

\* and its call get_mesh_skin_info(shape, vert_ids) that follows
GetMeshSkinInfo ==
    /\ mesh_out.err = ""
    /\ skin_out.err = "pending"
    /\ skin_out' = get_mesh_skin_info([skin_in EXCEPT
                                          !.ids_given = TRUE,
                                          !.vertex_ids = mesh_out.vert_id_list])
    /\ UNCHANGED <<skin_in, skin_imp, meshVars, skelVars, clipVars, animVars, swapVars>>

\* import_meshfile's call of create_mesh on the mesh element that
\* export_meshfile wrote once it had the mesh and the skin
CreateMesh ==
    /\ mesh_out.err = ""
    /\ skin_out.err # "pending"
    /\ mesh_imp.state = "pending"
    /\ mesh_imp' = create_mesh(mesh_out.mesh_dict)
    /\ UNCHANGED <<mesh_in, mesh_out, skinVars, skelVars, clipVars, animVars, swapVars>>

NextMesh == GetMeshInfo \/ GetMeshSkinInfo \/ CreateMesh

(***************************************************************************)
(* The specifications.                                                     *)
(***************************************************************************)
SpecClips ==
    /\ InitClips
    /\ [][NextClips]_vars

SpecSkel ==
    /\ InitSkel
    /\ [][NextSkel]_vars

SpecSkin ==
    /\ InitSkin
    /\ [][NextSkin]_vars

SpecAnim ==
    /\ InitAnim
    /\ [][NextAnim]_vars

SpecSwap ==
    /\ InitSwap
    /\ [][NextSwap]_vars

SpecMesh ==
    /\ InitMesh
    /\ [][NextMesh]_vars

SpecImport ==
    /\ InitImport
    /\ [][NextImport]_vars

(***************************************************************************)
(* Properties of the clip table (SpecClips).                               *)
(***************************************************************************)
\* the clips the attribute holds, in the order the string lists them: none for
\* an attribute without a string or with the empty string, else its '@' pieces
StoredReadable(attr) ==
    \/ attr.kind # "str"
    \/ attr.s = <<>>
    \/ ParseClips(Split(attr.s, "@"), 1, <<>>).ok

StoredClips(attr) ==
    IF attr.kind # "str" \/ attr.s = <<>> THEN <<>>
    ELSE ParseClips(Split(attr.s, "@"), 1, <<>>).clips

IsSortedByStart(clips) ==
    \A i, j \in 1..Len(clips) : i < j => clips[i].start <= clips[j].start

HasSeparator(name) == \E i \in 1..Len(name) : name[i] \in {"~", "@"}

\* C8: edit_animation_clip with a name the clip table holds replaces that
\* clip's start and end and leaves the number of clips and the other clips as
\* they were; with a new name it adds exactly one clip.
C8_EditReplacesOrAdds ==
    [][(clip_call'.op = "edit" /\ StoredReadable(anim_attr)) =>
         LET n == clip_call'.name
             old == StoredClips(anim_attr)
             new == StoredClips(anim_attr')
         IN  /\ StoredReadable(anim_attr')
             /\ IF \E i \in 1..Len(old) : old[i].name = n
                THEN /\ Len(new) = Len(old)
                     /\ \E i \in 1..Len(new) :
                           new[i] = AnimClip(n, clip_call'.start, clip_call'.end)
                     /\ \A i \in 1..Len(old) :
                           old[i].name # n => old[i] \in Range(new)
                ELSE Len(new) = Len(old) + 1]_vars

\* C9: after any sequence of edit_animation_clip and remove_animation_clip
\* calls, no two clips stored on the skeleton root have the same name.
C9_ClipNamesUnique ==
    StoredReadable(anim_attr) =>
        \A i, j \in 1..Len(StoredClips(anim_attr)) :
            StoredClips(anim_attr)[i].name = StoredClips(anim_attr)[j].name
                => i = j

RECURSIVE IsAncestorOrSelf(_, _)
IsAncestorOrSelf(a, b) ==
    IF a = b THEN TRUE
    ELSE IF parent[b] = 0 THEN FALSE
    ELSE IsAncestorOrSelf(a, parent[b])

\* the hierarchy roots in which the ancestor chains of the listed bones end
ChainRoots(bone_list) ==
    {r \in HostBones : /\ parent[r] = 0
                       /\ \E i \in 1..Len(bone_list) : IsAncestorOrSelf(r, bone_list[i])}

\* C3: the bone list of get_mesh_skeleton_info is in parent-before-child
\* order: the bone at index 0 is the only one without 'pa', and every other
\* bone's 'pa' is a list index smaller than the bone's own 'ix'.
C3_ParentBeforeChild ==
    (skel_call.op = "info" /\ skel_call.ok) =>
        LET info == skel_call.info
        IN  /\ Len(info) >= 1
            /\ info[1].ix = <<0>> /\ info[1].pa = <<>>
            /\ \A i \in 2..Len(info) :
                  /\ info[i].ix = <<i - 1>>
                  /\ Len(info[i].pa) = 1
                  /\ info[i].pa[1] >= 0
                  /\ info[i].pa[1] < info[i].ix[1]

\* C3 witness: a resolved list of three bones in which the last bone's parent
\* is not the bone listed just before it
C3_Witness ==
    /\ skel_call.op = "info" /\ skel_call.ok
    /\ Len(skel_call.info) = 3
    /\ skel_call.info[3].pa = <<0>>

\* C4: get_skeleton_hierarchy returns a bone list exactly when the ancestor
\* chains of the listed bones end in one root; with no root (an empty list)
\* or several it fails and returns no list.
C4_SingleRootOrError ==
    skel_call.op = "hierarchy" =>
        /\ skel_call.ok <=> Cardinality(ChainRoots(skel_call.bone_list)) = 1
        /\ ~skel_call.ok => skel_call.bones = <<>>
        /\ skel_call.ok => skel_call.bones # <<>>

\* C4 witness: a call with bones of two hierarchies failed
C4_Witness ==
    /\ skel_call.op = "hierarchy" /\ ~skel_call.ok
    /\ Cardinality(ChainRoots(skel_call.bone_list)) = 2

\* C5: two calls of the resolver with bone lists that share their root return
\* the same ordered bone list, hence the same bone and parent indices.
C5_SameRootSameList ==
    [][(/\ skel_call.op \in {"hierarchy", "info"} /\ skel_call.ok
        /\ skel_call'.op \in {"hierarchy", "info"} /\ skel_call'.ok
        /\ ChainRoots(skel_call.bone_list) = ChainRoots(skel_call'.bone_list))
       => /\ skel_call'.bones = skel_call.bones
          /\ (skel_call.op = "info" /\ skel_call'.op = "info")
                => skel_call'.info = skel_call.info]_vars

\* C5 witness: a call given two bones, neither the root, the deeper one first,
\* returned the list of three bones that starts at the root
C5_Witness ==
    /\ skel_call.op = "hierarchy" /\ skel_call.ok
    /\ Len(skel_call.bone_list) = 2
    /\ skel_call.bone_list[1] > skel_call.bone_list[2]
    /\ parent[skel_call.bone_list[2]] # 0
    /\ Len(skel_call.bones) = 3
    /\ parent[skel_call.bones[1]] = 0

\* the root of the hierarchy a successful call resolved
ResolvedRoot == root(skel_call.bone_list[1])

\* the nearest ancestor of a bone that is not flagged pdxIgnoreJoint, the root
\* of the hierarchy when every ancestor below it is flagged
RECURSIVE NearestKeptAncestor(_)
NearestKeptAncestor(bone) ==
    IF parent[parent[bone]] = 0 \/ ~ignore[parent[bone]] THEN parent[bone]
    ELSE NearestKeptAncestor(parent[bone])

\* C19: no bone flagged pdxIgnoreJoint is in the bone list returned by
\* get_skeleton_hierarchy, whatever the hierarchy and the flags, the root's
\* flag included.
C19_NoIgnoredBoneListed ==
    (skel_call.op = "hierarchy" /\ skel_call.ok) =>
        \A i \in 1..Len(skel_call.bones) : ~ignore[skel_call.bones[i]]

\* C20: every bone below the root that is not flagged pdxIgnoreJoint is in the
\* resolved bone list, and its 'pa' is the list position of its nearest
\* ancestor that is not flagged, also across flagged bones in between.
C20_ParentIsNearestKeptAncestor ==
    (skel_call.op = "info" /\ skel_call.ok) =>
        \A b \in HostBones :
            (root(b) = ResolvedRoot /\ b # ResolvedRoot /\ ~ignore[b]) =>
                /\ IndexOf(skel_call.bones, b) # 0
                /\ skel_call.info[IndexOf(skel_call.bones, b)].pa =
                      <<IndexOf(skel_call.bones, NearestKeptAncestor(b)) - 1>>

(***************************************************************************)
(* Properties of the skin packing (SpecSkin).                              *)
(***************************************************************************)
\* the weight the skin cluster gives a bone on a vertex: 0.0 for a bone that
\* is no influence object
HostWeight(bone, vert_id) ==
    IF IndexOf(skin_in.skin_bones, bone) = 0 THEN 0
    ELSE skin_in.weights[IndexOf(skin_in.skin_bones, bone)][vert_id + 1]

\* the number of non-zero influences of a vertex
InfluenceCount(vert_id) ==
    Cardinality({k \in 1..Len(skin_in.skin_bones) :
                    skin_in.weights[k][vert_id + 1] # 0})

ResolvedBones == get_skeleton_hierarchy(skin_in.skin_bones)

\* C2: when every vertex has at most PDX_MAXSKININFS non-zero influences,
\* whatever the recorded maximum influences, create_skin assigns every vertex
\* and bone the weight the exported skin cluster gave them (0.0 for a bone
\* that did not influence the vertex).
C2_SkinRoundTrip ==
    (/\ skin_imp.err # "pending"
     /\ \A v \in 0..(skin_in.nverts - 1) : InfluenceCount(v) <= PDX_MAXSKININFS)
    => /\ skin_imp.ok
       /\ Len(skin_imp.weights) = Len(VertexIds(skin_in))
       /\ \A k \in 1..Len(skin_imp.weights), j \in 1..Len(ResolvedBones.bones) :
             skin_imp.weights[k][j] =
                 HostWeight(ResolvedBones.bones[j], VertexIds(skin_in)[k])

\* C6: when an influence object of the skin cluster is absent from the
\* resolved hierarchy, get_mesh_skin_info raises the error naming such a bone
\* and returns no skin data; it returns skin data only when every influence
\* object is in the hierarchy.
C6_ExcludedBoneFails ==
    (skin_out.err # "pending" /\ ResolvedBones.ok) =>
        LET absent == {b \in Range(skin_in.skin_bones) :
                          b \notin Range(ResolvedBones.bones)}
        IN  /\ absent # {} =>
                  /\ ~skin_out.ok
                  /\ skin_out.err = "excluded"
                  /\ skin_out.bone \in absent
                  /\ skin_out.ix = <<>> /\ skin_out.w = <<>>
            /\ skin_out.ok => absent = {}

\* C6 witness: the export of a skin with a weighted influence object below an
\* ignored bone failed
C6_Witness ==
    /\ skin_out.err = "excluded"
    /\ ignore[parent[skin_out.bone]]
    /\ ~ignore[skin_out.bone]
    /\ HostWeight(skin_out.bone, 0) # 0

\* C7: the 'ix' and 'w' arrays of get_mesh_skin_info are equally long, and
\* hold exactly PDX_MAXSKININFS slots for every vertex id processed.
C7_SkinArrayLength ==
    skin_out.ok =>
        /\ Len(skin_out.ix) = Len(skin_out.w)
        /\ Len(skin_out.ix) = PDX_MAXSKININFS * Len(VertexIds(skin_in))

(***************************************************************************)
(* Properties of the animation packing (SpecAnim).                         *)
(***************************************************************************)
\* the entry of the unpacked dictionary under a name, <<>> when there is none
ReadEntry(keyframes, name) ==
    LET p == IndexOf([k \in 1..Len(keyframes) |-> keyframes[k].name], name)
    IN  IF p = 0 THEN <<>> ELSE keyframes[p].keys

\* what the packing wrote for one bone: per attribute, the packed form of the
\* samples in frame order
PackedKeys(keys) ==
    [c \in DOMAIN keys |->
        [f \in 1..Len(keys[c]) |-> PackedSample(c, keys[c][f])]]

\* C1: once import_animfile has run its cursor loop over the lists packed by
\* export_animfile, every exported bone has, for exactly its animated
\* attributes, the samples that were packed for it, in frame order (so a bone
\* with no animated attribute has none)
C1_AnimRoundTrip ==
    anim_imp.state = "done" =>
        \A i \in 1..Len(anim_file.keyframes) :
            ReadEntry(anim_imp.keyframes,
                      clean_imported_name(anim_file.keyframes[i].name))
                = PackedKeys(anim_file.keyframes[i].keys)

\* two samples of the list differ
NotAllEqual(attr_list) ==
    \E f, g \in 1..Len(attr_list) : attr_list[f] # attr_list[g]

\* C17: for every exported bone and each of t, q, s, the attribute is in the
\* result of get_scene_animdata, and in the bone's 'sa' string, exactly when
\* the bone's rounded samples of it are not all equal over the frame range;
\* the 'sa' string lists the attributes present in the order t, q, s.
C17_ChannelPresentIffAnimated ==
    anim_file.done =>
        \A i \in 1..Len(anim_in.bones) :
            LET present == {c \in Range(Channels) :
                               NotAllEqual(AttrLists(anim_in, i)[c])}
            IN  /\ anim_file.keyframes[i].name = anim_in.bones[i]
                /\ DOMAIN anim_file.keyframes[i].keys = present
                /\ anim_file.info[i].tag = anim_in.bones[i]
                /\ anim_file.info[i].sa =
                      SelectSeq(<<"t", "q", "s">>, LAMBDA c : c \in present)

\* C17 witness: a bone whose translation moves by less than the rounding step
\* and whose rotation and scale are animated was written with 'sa' = "qs"
C17_Witness ==
    /\ anim_file.done
    /\ \E i \in 1..Len(anim_in.bones) :
          /\ anim_in.motion[i].t = "jitter"
          /\ NotAllEqual(frames_data(anim_in, i)["t"])
          /\ anim_file.info[i].sa = <<"q", "s">>

\* the number of values one sample of an attribute takes in its packed list
Width(c) == IF c = "t" THEN 3 ELSE IF c = "q" THEN 4 ELSE 1

\* the bones that have attribute c, in hierarchy order
BonesWith(c) ==
    SelectSeq([i \in 1..Len(anim_file.keyframes) |-> i],
              LAMBDA i : c \in DOMAIN anim_file.keyframes[i].keys)

\* C18: the packed lists are frame-major, bone-minor: with n the number of
\* bones that have the attribute and w its width, the list holds frames x n x w
\* values, and the sample of frame f of the k-th such bone (both from 0) fills
\* the positions (f x n + k) x w up to (f x n + k + 1) x w - 1.
C18_FrameMajorBoneMinor ==
    anim_file.done =>
        \A c \in Range(Channels) :
            LET n == Len(BonesWith(c))
                w == Width(c)
            IN  /\ Len(anim_file.samples[c]) = anim_file.sa * n * w
                /\ \A f \in 0..(anim_file.sa - 1), k \in 0..(n - 1) :
                      SubSeq(anim_file.samples[c],
                             (f * n + k) * w + 1, (f * n + k + 1) * w)
                        = PackedSample(c,
                             anim_file.keyframes[BonesWith(c)[k + 1]].keys[c][f + 1])

\* C18 witness: two bones with animated rotation, a third bone without,
\* written over two frames or more
C18_Witness ==
    /\ anim_file.done
    /\ anim_file.sa >= 2
    /\ Len(anim_file.keyframes) = 3
    /\ Len(BonesWith("q")) = 2
    /\ Len(anim_file.samples["q"]) = anim_file.sa * 8

(***************************************************************************)
(* Properties of swap_coord_space (SpecSwap).                              *)
(***************************************************************************)
\* a vector, matrix, quaternion or UV pair was given and swapped twice
SwappedTwice ==
    /\ swap_call.times = 2
    /\ \/ swap_call.orig.type \in {"MVector", "MMatrix", "MQuaternion"}
       \/ Len(swap_call.orig.v) \in {2, 3}

\* C14 as stated: swap_coord_space applied twice returns the datum it was
\* given, for every vector, matrix, quaternion and UV pair.
C14_SwapTwiceIsIdentity ==
    SwappedTwice => swap_call.data.v = swap_call.orig.v

\* C14, amended: swap_coord_space applied twice returns the vector, matrix or
\* UV pair it was given, and for a unit quaternion the quaternion given or its
\* negation (the same rotation).
C14_SwapTwiceSameUpToSign ==
    SwappedTwice =>
        IF swap_call.orig.type = "MQuaternion"
        THEN swap_call.data.v \in {swap_call.orig.v, Negated(swap_call.orig.v)}
        ELSE swap_call.data.v = swap_call.orig.v

\* C14 witness: a quaternion with all four components non-zero was swapped
\* twice and came back negated
C14_Witness ==
    /\ SwappedTwice
    /\ swap_call.orig.type = "MQuaternion"
    /\ \A k \in 1..4 : swap_call.orig.v[k] # 0
    /\ swap_call.data.v = Negated(swap_call.orig.v)

(***************************************************************************)
(* Properties of get_mesh_info (SpecMesh).                                 *)
(***************************************************************************)
\* the tri verts of the faces given, in host order, and their keys
MeshTriVerts == TriVertsFrom(mesh_in.meshfaces, 1)
TriVertKey(j) == new_vert(mesh_in, MeshTriVerts[j])

NumStored == Len(mesh_out.mesh_dict.p) \div 3

\* the vertex stored at index k (from 0), read off the lists returned
StoredVertex(k) ==
    UniqueVertex(mesh_out.vert_id_list[k + 1],
                 Slice(mesh_out.mesh_dict.p, 3 * k, 3 * k + 3),
                 Slice(mesh_out.mesh_dict.n, 3 * k, 3 * k + 3),
                 [i \in 1..Len(mesh_in.uv_coords) |->
                     Slice(mesh_out.mesh_dict.u[i], 2 * k, 2 * k + 2)])

\* the stored index 'tri' holds for the j-th tri vert: the three entries of a
\* triangle are for its first, third and second tri vert
TriRef(j) ==
    LET t == (j - 1) \div 3
        c == (j - 1) % 3
    IN  mesh_out.mesh_dict.tri[3 * t + (IF c = 0 THEN 1 ELSE IF c = 1 THEN 3 ELSE 2)]

\* what the host holds for a tri vert: its normal, and its UV on UV set i
\* (from 1), <<>> when it is unmapped
HostNormal(j) ==
    LET tv == MeshTriVerts[j]
    IN  mesh_in.normals[tv.face.normal_ids[IndexOf(tv.face.verts, tv.vert_id)] + 1]

HostUV(j, i) ==
    LET tv == MeshTriVerts[j]
        uv_id == tv.face.uv_ids[i][IndexOf(tv.face.verts, tv.vert_id)]
    IN  IF uv_id < 0 THEN <<>> ELSE mesh_in.uv_coords[i][uv_id + 1]

\* every source vertex has a single normal and a single UV per set
SingleNormalAndUV ==
    \A j, k \in 1..Len(MeshTriVerts) :
        MeshTriVerts[j].vert_id = MeshTriVerts[k].vert_id =>
            /\ HostNormal(j) = HostNormal(k)
            /\ \A i \in 1..Len(mesh_in.uv_coords) : HostUV(j, i) = HostUV(k, i)

\* C11: with merging enabled no two stored vertices have equal (id, position,
\* normal, UVs) keys, there are as many stored vertices as distinct keys among
\* the tri verts, every tri vert references the stored vertex equal to its
\* key, and a mesh of single normals and UVs stores as many vertices as
\* source vertices are used.
C11_MergedVerticesUnique ==
    (mesh_out.err = "" /\ ~mesh_in.skip_merge_vertices) =>
        /\ \A j, k \in 0..(NumStored - 1) :
              StoredVertex(j) = StoredVertex(k) => j = k
        /\ NumStored = Cardinality({TriVertKey(j) : j \in 1..Len(MeshTriVerts)})
        /\ \A j \in 1..Len(MeshTriVerts) :
              /\ TriRef(j) \in 0..(NumStored - 1)
              /\ StoredVertex(TriRef(j)) = TriVertKey(j)
        /\ SingleNormalAndUV =>
              NumStored = Cardinality({MeshTriVerts[j].vert_id :
                                          j \in 1..Len(MeshTriVerts)})

\* merged: tri verts of two faces share a stored vertex whose normals differ
\* in the host by less than the rounding step, while others of one source
\* vertex are stored apart
C11_Witness ==
    /\ mesh_out.err = "" /\ ~mesh_in.skip_merge_vertices
    /\ \E j, k \in 1..Len(MeshTriVerts) :
          /\ MeshTriVerts[j].face.index # MeshTriVerts[k].face.index
          /\ HostNormal(j) # HostNormal(k)
          /\ TriRef(j) = TriRef(k)
    /\ \E j, k \in 1..Len(MeshTriVerts) :
          /\ MeshTriVerts[j].vert_id = MeshTriVerts[k].vert_id
          /\ TriRef(j) # TriRef(k)

\* the stored index the j-th tri vert resolves to: its own when every tri vert
\* is stored, else that of the stored vertex equal to its key
Resolved(j) ==
    IF mesh_in.skip_merge_vertices THEN j - 1
    ELSE CHOOSE k \in 0..(NumStored - 1) : StoredVertex(k) = TriVertKey(j)

\* C12: 'tri' holds, for every host triangle in face order then triangle
\* order, the stored indices of its first, third and second corner.
C12_WindingReversed ==
    mesh_out.err = "" =>
        /\ Len(mesh_out.mesh_dict.tri) = Len(MeshTriVerts)
        /\ \A t \in 0..((Len(MeshTriVerts) \div 3) - 1) :
              Slice(mesh_out.mesh_dict.tri, 3 * t, 3 * t + 3) =
                  <<Resolved(3 * t + 1), Resolved(3 * t + 3), Resolved(3 * t + 2)>>

\* a face of several triangles after another face, with merged vertices
C12_Witness ==
    /\ mesh_out.err = "" /\ ~mesh_in.skip_merge_vertices
    /\ Len(mesh_out.mesh_dict.tri) > 3
    /\ NumStored < Len(MeshTriVerts)
    /\ \E t \in 0..((Len(MeshTriVerts) \div 3) - 1) :
          Resolved(3 * t + 2) # Resolved(3 * t + 3)

\* C13: 'min' and 'max' bound every stored position on every axis, and every
\* bound is attained by a stored position.
C13_BoundsOfStoredPositions ==
    mesh_out.err = "" =>
        \A c \in 1..3 :
            /\ \A k \in 0..(NumStored - 1) :
                  /\ mesh_out.mesh_dict.min[c] <= StoredVertex(k).p[c]
                  /\ StoredVertex(k).p[c] <= mesh_out.mesh_dict.max[c]
            /\ \E k \in 0..(NumStored - 1) :
                  StoredVertex(k).p[c] = mesh_out.mesh_dict.min[c]
            /\ \E k \in 0..(NumStored - 1) :
                  StoredVertex(k).p[c] = mesh_out.mesh_dict.max[c]

\* a box of some extent on every axis, with a source vertex the faces given
\* do not use outside it
C13_Witness ==
    /\ mesh_out.err = ""
    /\ \A c \in 1..3 : mesh_out.mesh_dict.min[c] < mesh_out.mesh_dict.max[c]
    /\ \E v \in 1..Len(mesh_in.vertices) :
          ToGameSpace(mesh_in, mesh_in.vertices[v])[3] < mesh_out.mesh_dict.min[3]

\* a tri vert is unmapped on UV set i
Unmapped(j, i) == HostUV(j, i) = <<>>

\* C15: get_mesh_info does not fail on unmapped face-vertices; the vertex
\* stored for one has the UV (0.0, 0.0) on that set, and every UV set's
\* channel holds one pair per stored vertex.
C15_UnmappedUVIsZero ==
    mesh_out.err # "pending" =>
        /\ mesh_out.err = ""
        /\ \A i \in 1..Len(mesh_in.uv_coords) :
              /\ Len(mesh_out.mesh_dict.u[i]) = 2 * NumStored
              /\ \A j \in 1..Len(MeshTriVerts) :
                    Unmapped(j, i) => StoredVertex(TriRef(j)).uv[i] = <<0, 0>>

\* a source vertex unmapped in one face and mapped in another
C15_Witness ==
    /\ mesh_out.err = ""
    /\ \E i \in 1..Len(mesh_in.uv_coords), j, k \in 1..Len(MeshTriVerts) :
          /\ MeshTriVerts[j].vert_id = MeshTriVerts[k].vert_id
          /\ Unmapped(j, i) /\ ~Unmapped(k, i)
          /\ StoredVertex(TriRef(j)).uv[i] = <<0, 0>>
          /\ StoredVertex(TriRef(k)).uv[i] # <<0, 0>>

\* the keys of the tri verts up to the j-th in the order they are first
\* stored: all of them when every tri vert is stored, else the first of each
RECURSIVE FirstStored(_)
FirstStored(j) ==
    IF j = 0 THEN <<>>
    ELSE LET before == FirstStored(j - 1)
         IN  IF ~mesh_in.skip_merge_vertices /\ TriVertKey(j) \in Range(before)
             THEN before
             ELSE Append(before, TriVertKey(j))

\* the bones (indices into the exported bone list) that weigh on a vertex
InfluencesOf(vert_id) ==
    {b \in 0..(Len(ResolvedBones.bones) - 1) :
        HostWeight(ResolvedBones.bones[b + 1], vert_id) # 0}

\* C16: vert_id_list names the source vertex of every stored vertex in the
\* order they were first stored, and the k-th block of PDX_MAXSKININFS slots
\* of the skin's 'ix' and 'w' holds exactly the non-zero influences of the
\* k-th of them.
C16_SkinBlocksAligned ==
    (mesh_out.err = "" /\ skin_out.err # "pending") =>
        /\ Len(mesh_out.vert_id_list) = NumStored
        /\ mesh_out.vert_id_list =
              [k \in 1..Len(FirstStored(Len(MeshTriVerts))) |->
                  FirstStored(Len(MeshTriVerts))[k].id]
        /\ skin_out.ok
        /\ \A k \in 0..(NumStored - 1) :
              LET ix == Slice(skin_out.ix, PDX_MAXSKININFS * k,
                              PDX_MAXSKININFS * (k + 1))
                  w == Slice(skin_out.w, PDX_MAXSKININFS * k,
                             PDX_MAXSKININFS * (k + 1))
                  vert_id == mesh_out.vert_id_list[k + 1]
              IN  /\ Len(ix) = PDX_MAXSKININFS /\ Len(w) = PDX_MAXSKININFS
                  /\ {ix[s] : s \in {x \in 1..Len(ix) : ix[x] # -1}}
                         = InfluencesOf(vert_id)
                  /\ \A s \in 1..Len(ix) :
                        ix[s] # -1 =>
                            w[s] = HostWeight(ResolvedBones.bones[ix[s] + 1], vert_id)

(***************************************************************************)
(* Further properties of the skin packing (SpecSkin).                      *)
(***************************************************************************)
\* the number of slots get_mesh_skin_info appends for a vertex
SlotsOf(vert_id) ==
    IF InfluenceCount(vert_id) < PDX_MAXSKININFS THEN PDX_MAXSKININFS
    ELSE InfluenceCount(vert_id)

\* the number of slots appended for the first k vertex ids processed
RECURSIVE SlotsBefore(_)
SlotsBefore(k) ==
    IF k = 0 THEN 0
    ELSE SlotsBefore(k - 1) + SlotsOf(VertexIds(skin_in)[k])

\* C21: the slots appended for a vertex hold its non-zero influences first,
\* each with a bone index >= 0 and a weight that is not 0.0, then only
\* index -1 with weight 0.0; a vertex without influence is accepted and gets
\* PDX_MAXSKININFS padding slots.
C21_InfluencesThenPadding ==
    skin_out.ok =>
        /\ Len(skin_out.ix) = SlotsBefore(Len(VertexIds(skin_in)))
        /\ Len(skin_out.w) = Len(skin_out.ix)
        /\ \A k \in 1..Len(VertexIds(skin_in)) :
              LET vert_id == VertexIds(skin_in)[k]
              IN  \A s \in 1..SlotsOf(vert_id) :
                      LET ix == skin_out.ix[SlotsBefore(k - 1) + s]
                          w == skin_out.w[SlotsBefore(k - 1) + s]
                      IN  IF s <= InfluenceCount(vert_id)
                          THEN /\ ix >= 0
                               /\ w # 0
                               /\ w = HostWeight(ResolvedBones.bones[ix + 1], vert_id)
                          ELSE ix = -1 /\ w = 0

\* a vertex without influence next to one with fewer than PDX_MAXSKININFS
C21_Witness ==
    /\ skin_out.ok
    /\ \E j, k \in 1..Len(VertexIds(skin_in)) :
          /\ InfluenceCount(VertexIds(skin_in)[j]) = 0
          /\ Slice(skin_out.ix, SlotsBefore(j - 1), SlotsBefore(j))
                 = Repeat(-1, PDX_MAXSKININFS)
          /\ InfluenceCount(VertexIds(skin_in)[k]) \in 1..(PDX_MAXSKININFS - 1)

\* C22: every weight create_skin gives a vertex on a joint was packed in a
\* slot of the vertex's own block of PDX_MAXSKININFS slots, whatever the
\* header of the file.
C22_SlotsReadInOwnBlock ==
    skin_imp.ok =>
        \A v \in 1..Len(skin_imp.weights) :
            \A j \in 1..Len(skin_imp.weights[v]) :
                skin_imp.weights[v][j] # 0 =>
                    \E s \in 1..PDX_MAXSKININFS :
                        /\ skin_out.ix[PDX_MAXSKININFS * (v - 1) + s] = j - 1
                        /\ skin_out.w[PDX_MAXSKININFS * (v - 1) + s]
                               = skin_imp.weights[v][j]

(***************************************************************************)
(* Further properties of get_mesh_info and create_mesh (SpecMesh).         *)
(***************************************************************************)
\* the number of host triangles of the faces given
RECURSIVE TrianglesFrom(_)
TrianglesFrom(f) ==
    IF f > Len(mesh_in.meshfaces) THEN 0
    ELSE Len(mesh_in.meshfaces[f].tris) + TrianglesFrom(f + 1)

\* C23: without merging every tri vert is stored as a vertex of its own, so
\* there are 3 stored vertices per triangle, and every triangle references the
\* three stored for it.
C23_EveryTriVertStored ==
    (mesh_out.err = "" /\ mesh_in.skip_merge_vertices) =>
        /\ NumStored = 3 * TrianglesFrom(1)
        /\ Len(mesh_out.vert_id_list) = 3 * TrianglesFrom(1)
        /\ \A j \in 1..Len(MeshTriVerts) :
              /\ TriRef(j) = j - 1
              /\ StoredVertex(j - 1) = TriVertKey(j)

\* tri verts with equal keys, each stored
C23_Witness ==
    /\ mesh_out.err = "" /\ mesh_in.skip_merge_vertices
    /\ \E j, k \in 1..Len(MeshTriVerts) :
          /\ j < k
          /\ TriVertKey(j) = TriVertKey(k)
          /\ StoredVertex(j - 1) = StoredVertex(k - 1)
          /\ TriRef(k) = k - 1

\* C24: every entry of 'tri' is the index of a stored vertex, and 'tri' has
\* three entries per triangle processed.
C24_TriIndicesValid ==
    mesh_out.err = "" =>
        /\ \A s \in 1..Len(mesh_out.mesh_dict.tri) :
              mesh_out.mesh_dict.tri[s] \in 0..(NumStored - 1)
        /\ Len(mesh_out.mesh_dict.tri) = 3 * TrianglesFrom(1)

\* both modes: a mesh of several triangles whose last stored vertex is
\* referenced
C24_Witness ==
    /\ mesh_out.err = ""
    /\ TrianglesFrom(1) > 1
    /\ NumStored < 3 * TrianglesFrom(1)
    /\ \E s \in 1..Len(mesh_out.mesh_dict.tri) :
          mesh_out.mesh_dict.tri[s] = NumStored - 1

CyclicRotations(t) == {t, <<t[2], t[3], t[1]>>, <<t[3], t[1], t[2]>>}

\* C25: the triangle create_mesh builds from what get_mesh_info emitted for a
\* host triangle is a cyclic rotation of the stored indices of the host
\* triangle's corners in host order.
C25_WindingRoundTrip ==
    mesh_imp.state = "created" =>
        /\ Len(mesh_imp.polygonConnects) = Len(MeshTriVerts)
        /\ \A t \in 0..(TrianglesFrom(1) - 1) :
              Slice(mesh_imp.polygonConnects, 3 * t, 3 * t + 3) \in
                  CyclicRotations(<<Resolved(3 * t + 1), Resolved(3 * t + 2),
                                    Resolved(3 * t + 3)>>)

\* several triangles of three different stored vertices each, reversed by
\* the export
C25_Witness ==
    /\ mesh_imp.state = "created"
    /\ TrianglesFrom(1) > 1
    /\ \A t \in 0..(TrianglesFrom(1) - 1) :
          /\ Cardinality({Resolved(3 * t + c) : c \in 1..3}) = 3
          /\ Slice(mesh_out.mesh_dict.tri, 3 * t, 3 * t + 3) \notin
                 CyclicRotations(<<Resolved(3 * t + 1), Resolved(3 * t + 2),
                                   Resolved(3 * t + 3)>>)

(***************************************************************************)
(* Further properties of the animation export and import (SpecAnim).       *)
(***************************************************************************)
\* the uniform scale values written for bone i when it has an 's' channel:
\* axis 0 of its rounded scale, frame by frame
ScaleWritten(i) ==
    [f \in 1..anim_in.frames |->
        PackedSample("s", AttrLists(anim_in, i)["s"][f])[1]]

\* C26: a bone has the sample type 's', and samples in the 's' array, only
\* if the axis 0 scale values written for it are not all equal.
C26_ScaleChannelOnlyIfWrittenVaries ==
    anim_file.done =>
        \A i \in 1..Len(anim_file.info) :
            ("s" \in Range(anim_file.info[i].sa)
                \/ "s" \in DOMAIN anim_file.keyframes[i].keys)
            => Cardinality(Range(ScaleWritten(i))) > 1

\* the cleaned names of the file's bones that the scene has no joint for
MissingBones ==
    {n \in Range(CleanTags(anim_file.info)) : n \notin anim_in.joints}

\* C27: a call of import_animfile on a file that names a bone the scene
\* lacks ends in the error that lists every missing bone, unpacks no
\* keyframe, creates no animation curve and leaves the clip table as it was;
\* the bones found have been posed. A file whose bones are all found does not
\* end in that error.
C27_MissingBonesFailBeforeKeys ==
    [][(anim_imp'.imports = anim_imp.imports + 1) =>
         IF MissingBones # {}
         THEN /\ anim_imp'.state = "RuntimeError"
              /\ Range(anim_imp'.bone_errors) = MissingBones
              /\ Len(anim_imp'.bone_errors) =
                    Cardinality({i \in 1..Len(anim_file.info) :
                                    CleanTags(anim_file.info)[i] \in MissingBones})
              /\ anim_imp'.keyframes = <<>>
              /\ anim_imp'.keyed = <<>>
              /\ anim_attr' = anim_attr
              /\ Range(anim_imp'.posed) =
                    Range(CleanTags(anim_file.info)) \ MissingBones
         ELSE anim_imp'.state # "RuntimeError"]_vars

\* a file with a bone that is found and one that is missing, read into a
\* skeleton that has clips
C27_Witness ==
    /\ anim_imp.state = "RuntimeError"
    /\ anim_imp.bone_errors # <<>>
    /\ anim_imp.posed # <<>>
    /\ StoredClips(anim_attr) # <<>>

\* the clips of the table that have the given name
ClipsNamed(attr, name) ==
    {i \in 1..Len(StoredClips(attr)) : StoredClips(attr)[i].name = name}

\* C28: after a call of import_animfile that succeeds, the clip table holds
\* exactly one clip of the file's name, from the start frame to start frame +
\* frames - 1, which is the playback range set; when the call before it
\* succeeded under the same name, the number of clips is unchanged.
C28_ImportSetsOneClip ==
    [][(anim_imp'.imports = anim_imp.imports + 1 /\ anim_imp'.state = "done") =>
         LET N == anim_imp'.animation_name
             new == StoredClips(anim_attr')
         IN  /\ StoredReadable(anim_attr')
             /\ Cardinality(ClipsNamed(anim_attr', N)) = 1
             /\ \A i \in ClipsNamed(anim_attr', N) :
                   /\ <<new[i].start, new[i].end>> = anim_imp'.playback
                   /\ new[i].end = new[i].start + anim_file.sa - 1
             /\ (anim_imp.state = "done" /\ anim_imp.animation_name = N)
                   => Len(new) = Len(StoredClips(anim_attr))]_vars

(***************************************************************************)
(* Further properties of the clip table (SpecClips).                       *)
(***************************************************************************)
\* C29: after remove_animation_clip has removed the only clip of a table,
\* get_animation_clips returns the empty list without error, and a following
\* edit_animation_clip, whatever its name and range, succeeds and leaves a
\* table that holds exactly the clip it was given.
C29_EmptiedTableUsable ==
    [][(/\ clip_call'.op = "remove" /\ clip_call'.err = ""
        /\ Len(get_animation_clips(anim_attr).clips) = 1) =>
         /\ get_animation_clips(anim_attr').ok
         /\ get_animation_clips(anim_attr').clips = <<>>
         /\ \A n \in ClipNames, r \in ClipRanges :
               LET o == edit_animation_clip(anim_attr', n, r[1], r[2])
               IN  /\ o.err = ""
                   /\ get_animation_clips(o.attr).ok
                   /\ get_animation_clips(o.attr).clips = <<AnimClip(n, r[1], r[2])>>]_vars

UniquelyNamed(clips) ==
    \A i, j \in 1..Len(clips) : clips[i].name = clips[j].name => i = j

\* C30: when set_animation_clips has written a list of uniquely named clips,
\* get_animation_clips reads the string without error and returns exactly
\* those clips (same names, starts and ends, same count), ordered by start.
C30_ClipTableRoundTrip ==
    (anim_attr.kind = "str" /\ UniquelyNamed(clip_call.written)) =>
        LET got == get_animation_clips(set_animation_clips(clip_call.written))
        IN  /\ anim_attr = set_animation_clips(clip_call.written)
            /\ got.ok
            /\ got.clips = SortByStart(clip_call.written)
            /\ IsSortedByStart(got.clips)

=============================================================================
